---------------------------- MODULE Spec2Model ----------------------------
(***************************************************************************)
(* Fractal Explorer (SREphoto/Fractalization).                             *)
(*                                                                         *)
(* The module models                                                       *)
(*   - the escape-time evaluator of drawFractal   (SpecEscape),            *)
(*   - the palette colorizer getColor / hslToRgb  (SpecColor),             *)
(*   - the raster pass of drawFractal             (Spec),                  *)
(*   - the WebGL effect of FractalCanvas          (SpecGL, FairSpecGL).    *)
(*                                                                         *)
(* JavaScript numbers are IEEE doubles.  They are modelled as binary       *)
(* floating-point numbers m * 2^e with Precision significant bits, every   *)
(* sum, product and quotient correctly rounded (ties to even), plus the    *)
(* value NaN, which propagates through every operation and makes every     *)
(* comparison false.  The exponent is unbounded: overflow to an infinity   *)
(* and underflow are left out.  Inside the escape loops |x|,|y| <= 2 holds *)
(* whenever the body runs, so no finite input overflows there.             *)
(***************************************************************************)
EXTENDS Integers, Sequences, FiniteSets, TLC

VARIABLES
    \* DrawParams, destructured as in drawFractal
    width, height, fractalType, zoom, maxIterations, cReal, cImag,
    panX, panY, colorPalette,
    \* locals of drawFractal
    px, py, x0, y0, x, y, iteration,
    trail,          \* history: the (x,y) states the current escape loop went through
    color,          \* the [r, g, b] getColor returned
    imageData,      \* imageData.data, indexed from 0
    writeLog,       \* history: one record per pixel written, in order
    canvas,         \* what putImageData handed to the display surface
    pc,
    \* FractalCanvas and its effect
    is3D,               \* params.fractalType === FractalType.Mandelbulb
    phase,              \* where React is: "init", "idle", "commit", "unmounted"
    effectStatus,       \* how the latest run of the effect ended, or that its cleanup ran
    failures,           \* the initialisation steps that failed in the latest run
    consoleErrors,      \* what the latest run passed to console.error
    gpu,                \* the WebGL objects of the latest run
    rafQueue,           \* the host's pending animation-frame callbacks
    animationFrameId,   \* the effect closure's animationFrameId
    draws,              \* gl.drawArrays calls of the latest run, modulo FrameWrap
    lastTick,           \* what the latest frame tick did
    passDrew,           \* the latest run issued a draw call
    staleTickRan,       \* a frame tick ran for an effect whose cleanup had run
    committedProps,     \* the camera props of the latest commit of FractalCanvas
    drawnWith,          \* the uniforms of the latest gl.drawArrays
    renderComplete,     \* the latest run called onRenderComplete
    \* hslToRgb called on its own
    hslArg,             \* the argument, kept as its three number fields
    \* main of the fragment shader, for one fragment
    u_maxSteps, marchI, total_dist,
    estimates,          \* history: the res.x each call of mandelbulbDE in the loop returned
    lit,                \* the shading branch of lines 94-112 ran
    gl_FragColor,
    \* drawSierpinskiTriangle
    sierpI,             \* the loop variable i
    sierpP,             \* p, kept as the vertex it last moved towards (0: the random start)
    fillStyle,
    pointFills,         \* number of calls ctx.fillRect(p.x, p.y, 1, 1)
    lastFill,           \* the i and p of the last such call
    \* App and the handlers of FractalCanvas and Controls
    renderParams, cameraRotation, isRendering,
    animationRef,       \* startTime is kept as "null" or "set", see elapsedTime
    elapsedTime,        \* timestamp - startTime at the latest frame of animateView
    frames,             \* ids of the requested and not cancelled frames of animateView
    effectDue,          \* params or cameraRotation changed, the effect of FractalCanvas has not run
    contextMode,        \* the context the canvas element is bound to
    localStorage,
    isDragging2D,
    wheelEvent,         \* the latest wheel event
    viewRequest,        \* what handleWheel passed to onViewChange or onCameraChange
    uiEvents            \* how many user events happened, by kind

escapeVars == <<fractalType, maxIterations, cReal, cImag, x0, y0, x, y, iteration, trail>>
rasterVars == <<width, height, zoom, panX, panY, colorPalette, px, py,
                color, imageData, writeLog, canvas>>
glVars == <<is3D, phase, effectStatus, failures, consoleErrors, gpu, rafQueue,
            animationFrameId, draws, lastTick, passDrew, staleTickRan, renderComplete,
            committedProps, drawnWith>>
hslVars == <<hslArg>>
\* what the four parts above leave alone
marchVars == <<u_maxSteps, marchI, total_dist, estimates, lit, gl_FragColor>>
sierpVars == <<sierpI, sierpP, fillStyle, pointFills, lastFill>>
appVars == <<renderParams, cameraRotation, isRendering, animationRef, elapsedTime, frames,
             effectDue, contextMode, localStorage, isDragging2D, wheelEvent, viewRequest,
             uiEvents>>
extVars == <<hslVars, marchVars, sierpVars, appVars>>
vars == <<escapeVars, rasterVars, glVars, pc, extVars>>

-----------------------------------------------------------------------------
(* Bounds of the model *)

Precision == 8       \* significant bits of a number (53 in an IEEE double)
MaxSample == 6       \* sample points range over -MaxSample/2 .. MaxSample/2
MaxC == 1            \* Julia constants range over -MaxC/2 .. MaxC/2
MaxIter == 4         \* iteration budgets 1..MaxIter
MaxColorN == 12      \* getColor is called with maxIterations up to MaxColorN
MaxW == 3            \* raster widths 1..MaxW
MaxH == 2            \* raster heights 1..MaxH
FrameWrap == 2       \* draw calls are counted modulo FrameWrap
MaxHue == 360        \* hslToRgb is called with hues 0..MaxHue
MaxSteps == 4        \* step budgets u_maxSteps 1..MaxSteps
MaxClick == 2        \* button clicks (Render, Reset View, Save, Load) in a behaviour of SpecApp
MaxWheel == 2        \* wheel events in a behaviour of SpecApp
MaxMove == 1         \* mouse moves with the button down in a behaviour of SpecApp
MaxZoomWheel == 30   \* wheel events in a behaviour of SpecZoom
MaxExponent == 20    \* a magnitude of 2^MaxExponent or more is Infinity (1024 in an IEEE double)

-----------------------------------------------------------------------------
(* The state of the parts a specification leaves alone *)

NoGpu == [program |-> "none", vertexShader |-> "none", fragmentShader |-> "none",
          positionBuffer |-> "none"]
NoTick == [drawCalls |-> 0, requests |-> 0]
\* cameraRotation, params.cameraDistance, params.cameraTarget, params.mandelbulbIterations
\* as App starts them, in tenths
BaseProps == [cameraRotation |-> <<0, 0>>, cameraDistance |-> 30, cameraTarget |-> <<0, 0>>,
              mandelbulbIterations |-> 500]
NoDraw == [frame |-> 0, props |-> BaseProps]

HslIdle == hslArg = [h |-> <<>>, s |-> <<>>, l |-> <<>>]

NoColor == [rgb |-> <<0, 0, 0>>, a |-> 0]

MarchIdle ==
    /\ u_maxSteps = 0 /\ marchI = 0 /\ total_dist = 0
    /\ estimates = <<>>
    /\ lit = FALSE
    /\ gl_FragColor = NoColor

NoFill == [i |-> -1, p |-> 0]

SierpIdle ==
    /\ sierpI = 0 /\ sierpP = 0
    /\ fillStyle = <<0, 0, 0>>
    /\ pointFills = 0
    /\ lastFill = NoFill

NoView == [kind |-> "none"]
NoWheel == [mouseX |-> 0, mouseY |-> 0, deltaY |-> 0]

AppIdle ==
    /\ renderParams = <<>>
    /\ cameraRotation = <<>>
    /\ isRendering = FALSE
    /\ animationRef = <<>>
    /\ elapsedTime = 0
    /\ frames = {}
    /\ effectDue = FALSE
    /\ contextMode = "none"
    /\ localStorage = <<>>
    /\ isDragging2D = FALSE
    /\ wheelEvent = NoWheel
    /\ viewRequest = NoView
    /\ uiEvents = <<>>

ExtIdle == HslIdle /\ MarchIdle /\ SierpIdle /\ AppIdle

GLIdle ==
    /\ is3D = FALSE
    /\ phase = "init"
    /\ effectStatus = "none"
    /\ failures = {}
    /\ consoleErrors = {}
    /\ gpu = NoGpu
    /\ rafQueue = {}
    /\ animationFrameId = 0
    /\ draws = 0
    /\ lastTick = NoTick
    /\ passDrew = FALSE
    /\ staleTickRan = FALSE
    /\ renderComplete = FALSE
    /\ committedProps = BaseProps
    /\ drawnWith = NoDraw

-----------------------------------------------------------------------------
(* Numbers *)

Abs(n) == IF n < 0 THEN -n ELSE n
Sign(n) == IF n < 0 THEN -1 ELSE 1

BitLen[n \in Nat] == IF n = 0 THEN 0 ELSE 1 + BitLen[n \div 2]

Number == [nan : BOOLEAN, m : Int, e : Int]
NaN == [nan |-> TRUE, m |-> 0, e |-> 0]

\* the number m * 2^e in its one representation: m odd, or zero
Canon[m \in Int, e \in Int] ==
    IF m = 0 THEN [nan |-> FALSE, m |-> 0, e |-> 0]
    ELSE IF m % 2 = 0 THEN Canon[m \div 2, e + 1]
    ELSE [nan |-> FALSE, m |-> m, e |-> e]

\* m * 2^e rounded to Precision significant bits, ties to even
RoundTo[m \in Int, e \in Int] ==
    LET k == BitLen[Abs(m)] - Precision
    IN  IF k <= 0 THEN Canon[m, e]
        ELSE LET q    == Abs(m) \div (2 ^ k)
                 r    == Abs(m) % (2 ^ k)
                 half == 2 ^ (k - 1)
                 up   == r > half \/ (r = half /\ q % 2 = 1)
             IN  Canon[Sign(m) * (IF up THEN q + 1 ELSE q), e + k]

Num(k) == RoundTo[k, 0]                        \* the integer literal k
Half(k) == RoundTo[k, -1]                      \* the number k/2

FNeg[a \in Number] == IF a.nan THEN NaN ELSE [a EXCEPT !.m = -a.m]
FAbs[a \in Number] == IF a.nan THEN NaN ELSE [a EXCEPT !.m = Abs(a.m)]

\* the sum of two numbers a, b # 0 with a.e >= b.e
AddAligned[a \in Number, b \in Number] ==
    IF a.e - b.e > 2 * Precision + 2
    THEN a                                     \* b is below half an ulp of a
    ELSE RoundTo[a.m * (2 ^ (a.e - b.e)) + b.m, b.e]

FAdd[a \in Number, b \in Number] ==
    IF a.nan \/ b.nan THEN NaN
    ELSE IF a.m = 0 THEN b
    ELSE IF b.m = 0 THEN a
    ELSE IF a.e >= b.e THEN AddAligned[a, b] ELSE AddAligned[b, a]

FSub[a \in Number, b \in Number] == FAdd[a, FNeg[b]]

FMul[a \in Number, b \in Number] == IF a.nan \/ b.nan THEN NaN ELSE RoundTo[a.m * b.m, a.e + b.e]

\* (n / d) * 2^e for integers n and d # 0: the quotient to at least
\* Precision + 2 bits and a sticky bit, rounded
Ratio[n \in Int, d \in Int, e \in Int] ==
    LET nn == Abs(n) * (2 ^ (2 * Precision + 2))
        q == nn \div Abs(d)
        sticky == IF nn % Abs(d) = 0 THEN 0 ELSE 1
    IN  RoundTo[Sign(n) * Sign(d) * (2 * q + sticky), e - (2 * Precision + 2) - 1]

\* 0/0 is NaN; a nonzero number over zero is an infinity, which the model
\* leaves out (no view of the model has zoom 0).
FDiv[a \in Number, b \in Number] ==
    IF a.nan \/ b.nan \/ b.m = 0 THEN NaN ELSE Ratio[a.m, b.m, a.e - b.e]

\* a > 0, a = 0, a < 0 as 1, 0, -1
SignOf(a) == IF a.m > 0 THEN 1 ELSE IF a.m = 0 THEN 0 ELSE -1

\* the order of two numbers of the same sign s # 0
CompareMagnitude[a \in Number, b \in Number] ==
    LET ta == a.e + BitLen[Abs(a.m)]
        tb == b.e + BitLen[Abs(b.m)]
    IN  IF ta # tb THEN (IF ta > tb THEN 1 ELSE -1)
        ELSE LET lo == IF a.e < b.e THEN a.e ELSE b.e
                 ma == Abs(a.m) * (2 ^ (a.e - lo))
                 mb == Abs(b.m) * (2 ^ (b.e - lo))
             IN  IF ma > mb THEN 1 ELSE IF ma = mb THEN 0 ELSE -1

\* -1, 0, 1 as a < b, a = b, a > b (neither NaN)
Compare[a \in Number, b \in Number] ==
    IF SignOf(a) # SignOf(b) THEN (IF SignOf(a) > SignOf(b) THEN 1 ELSE -1)
    ELSE IF SignOf(a) = 0 THEN 0
    ELSE SignOf(a) * CompareMagnitude[a, b]

FLe[a \in Number, b \in Number] == ~a.nan /\ ~b.nan /\ Compare[a, b] <= 0
FGt[a \in Number, b \in Number] == ~a.nan /\ ~b.nan /\ Compare[a, b] > 0
FGe[a \in Number, b \in Number] == ~a.nan /\ ~b.nan /\ Compare[a, b] >= 0

(***************************************************************************)
(* The range of a double, for the arithmetic of App and its handlers,      *)
(* where a wheel event multiplies zoom without a limit.  Infinity is kept  *)
(* as the number 2^MaxExponent with its sign; every magnitude from there   *)
(* on is Infinity.  Small magnitudes keep the unbounded exponent: dividing *)
(* by 1.15 does not reach 0 in a double either, as the least denormal      *)
(* over 1.15 rounds to the least denormal.                                 *)
(***************************************************************************)
IsInf(a) == ~a.nan /\ a.m # 0 /\ a.e + BitLen[Abs(a.m)] > MaxExponent
Infinity(sign) == [nan |-> FALSE, m |-> sign, e |-> MaxExponent]
IsFinite(a) == ~a.nan /\ ~IsInf(a)

Clamp[a \in Number] == IF IsInf(a) THEN Infinity(SignOf(a)) ELSE a

XNeg[a \in Number] == Clamp[FNeg[a]]

XAdd[a \in Number, b \in Number] ==
    IF a.nan \/ b.nan THEN NaN
    ELSE IF IsInf(a) /\ IsInf(b) THEN (IF SignOf(a) = SignOf(b) THEN Clamp[a] ELSE NaN)
    ELSE IF IsInf(a) THEN Clamp[a]
    ELSE IF IsInf(b) THEN Clamp[b]
    ELSE Clamp[FAdd[a, b]]

XSub[a \in Number, b \in Number] == XAdd[a, FNeg[b]]

XMul[a \in Number, b \in Number] ==
    IF a.nan \/ b.nan THEN NaN
    ELSE IF IsInf(a) \/ IsInf(b)
         THEN (IF a.m = 0 \/ b.m = 0 THEN NaN ELSE Infinity(SignOf(a) * SignOf(b)))
    ELSE Clamp[FMul[a, b]]

\* the sign of a zero is not kept: x / 0 is +Infinity or -Infinity by the sign of x
XDiv[a \in Number, b \in Number] ==
    IF a.nan \/ b.nan THEN NaN
    ELSE IF IsInf(a) THEN (IF IsInf(b) THEN NaN
                          ELSE Infinity(SignOf(a) * (IF b.m < 0 THEN -1 ELSE 1)))
    ELSE IF IsInf(b) THEN Num(0)
    ELSE IF b.m = 0 THEN (IF a.m = 0 THEN NaN ELSE Infinity(SignOf(a)))
    ELSE Clamp[FDiv[a, b]]

-----------------------------------------------------------------------------
(* types.ts *)

FractalType == {"Mandelbrot", "Julia", "BurningShip", "Sierpinski", "Mandelbulb"}
EscapeTypes == {"Mandelbrot", "Julia", "BurningShip"}

-----------------------------------------------------------------------------
(* The escape-time loops of drawFractal *)

\* x * x + y * y
Radius2(xx, yy) == FAdd[FMul[xx, xx], FMul[yy, yy]]

\* a slip in the budget test (<= for <)
LoopCondOffByOne(xx, yy, it, n) == FLe[Radius2(xx, yy), Num(4)] /\ it <= n

\* the while condition shared by the three branches
LoopCond(xx, yy, it, n) == FLe[Radius2(xx, yy), Num(4)] /\ it < n

\* xtemp = x*x - y*y + x0;  y = 2*x*y + y0;  x = xtemp
MandelbrotBody(xx, yy, kx, ky) ==
    << FAdd[FSub[FMul[xx, xx], FMul[yy, yy]], kx],
       FAdd[FMul[FMul[Num(2), xx], yy], ky] >>

\* a slip that applies the reflection after adding the constant
BurningShipBodyAbsLate(xx, yy, kx, ky) ==
    << FAdd[FSub[FMul[xx, xx], FMul[yy, yy]], kx],
       FAbs[FAdd[FMul[FMul[Num(2), xx], yy], ky]] >>

\* xtemp = x*x - y*y + x0;  y = 2*Math.abs(x*y) + y0;  x = xtemp
BurningShipBody(xx, yy, kx, ky) ==
    << FAdd[FSub[FMul[xx, xx], FMul[yy, yy]], kx],
       FAdd[FMul[Num(2), FAbs[FMul[xx, yy]]], ky] >>

\* a sign slip in xtemp (x*x + y*y)
JuliaBodySignSlip(xx, yy, kx, ky) ==
    << FAdd[FAdd[FMul[xx, xx], FMul[yy, yy]], kx],
       FAdd[FMul[FMul[Num(2), xx], yy], ky] >>

\* xtemp = x*x - y*y + cReal;  y = 2*x*y + cImag;  x = xtemp
JuliaBody(xx, yy, kx, ky) ==
    << FAdd[FSub[FMul[xx, xx], FMul[yy, yy]], kx],
       FAdd[FMul[FMul[Num(2), xx], yy], ky] >>

Body(type, xx, yy, kx, ky) ==
    IF type = "Mandelbrot" THEN MandelbrotBody(xx, yy, kx, ky)
    ELSE IF type = "BurningShip" THEN BurningShipBody(xx, yy, kx, ky)
    ELSE JuliaBody(xx, yy, kx, ky)

\* the start value of (x, y) in each branch
StartPoint(type, sx, sy) ==
    IF type \in {"Mandelbrot", "BurningShip"} THEN <<Num(0), Num(0)>> ELSE <<sx, sy>>

\* the constant term of each branch
ConstTerm(type, sx, sy, cr, ci) ==
    IF type \in {"Mandelbrot", "BurningShip"} THEN <<sx, sy>> ELSE <<cr, ci>>

RECURSIVE RunLoop(_, _, _, _, _, _, _, _)
RunLoop(type, xx, yy, it, n, kx, ky, tr) ==
    IF LoopCond(xx, yy, it, n)
    THEN LET s == Body(type, xx, yy, kx, ky)
         IN  RunLoop(type, s[1], s[2], it + 1, n, kx, ky, Append(tr, s))
    ELSE [iteration |-> it, trail |-> tr]

\* lines 139-165 as a function of the sample point
EscapeTime(type, sx, sy, cr, ci, n) ==
    LET p == StartPoint(type, sx, sy)
        k == ConstTerm(type, sx, sy, cr, ci)
    IN  RunLoop(type, p[1], p[2], 0, n, k[1], k[2], <<p>>)

-----------------------------------------------------------------------------
(* The palette colorizer *)

PaletteNames == {"Rainbow", "Viridis", "Plasma", "Magma", "Inferno", "Sunset", "Ocean", "Forest"}
TablePalettes == PaletteNames \ {"Rainbow"}
\* a selector outside the enumeration (the lookup miss of line 67)
PaletteSelectors == PaletteNames \cup {"Unknown"}

palettes ==
    [ Viridis |-> << <<68, 1, 84>>, <<59, 82, 139>>, <<33, 145, 140>>, <<94, 201, 98>>, <<253, 231, 37>> >>,
      Plasma  |-> << <<13, 8, 135>>, <<110, 0, 168>>, <<177, 42, 144>>, <<225, 100, 98>>, <<252, 166, 54>>, <<240, 249, 33>> >>,
      Magma   |-> << <<0, 0, 4>>, <<59, 15, 112>>, <<140, 41, 129>>, <<221, 73, 104>>, <<253, 154, 108>>, <<252, 253, 191>> >>,
      Inferno |-> << <<0, 0, 4>>, <<88, 16, 110>>, <<172, 37, 104>>, <<239, 100, 58>>, <<251, 179, 31>>, <<252, 254, 177>> >>,
      Sunset  |-> << <<35, 7, 77>>, <<106, 2, 93>>, <<188, 59, 73>>, <<248, 146, 56>>, <<249, 248, 113>> >>,
      Ocean   |-> << <<0, 2, 67>>, <<0, 41, 114>>, <<0, 83, 140>>, <<0, 138, 168>>, <<145, 205, 194>> >>,
      Forest  |-> << <<1, 22, 12>>, <<10, 50, 20>>, <<45, 87, 44>>, <<102, 124, 61>>, <<179, 162, 93>> >> ]

DigitChars == <<"0", "1", "2", "3", "4", "5", "6", "7", "8", "9">>

RECURSIVE NatToString(_)
NatToString(n) ==
    IF n < 10 THEN <<DigitChars[n + 1]>>
    ELSE Append(NatToString(n \div 10), DigitChars[(n % 10) + 1])

\* ${n} for an integer n
NumberToString(n) == IF n < 0 THEN <<"-">> \o NatToString(-n) ELSE NatToString(n)

\* the string `hsl(${h}, ${s}%, ${l}%)`, kept as its three number fields
HslString(h, s, l) == [h |-> NumberToString(h), s |-> NumberToString(s), l |-> NumberToString(l)]

\* \d+
MatchesDigits(str) == Len(str) > 0 /\ \A i \in 1..Len(str) : \E d \in 1..10 : str[i] = DigitChars[d]

DigitValue(ch) == (CHOOSE d \in 1..10 : DigitChars[d] = ch) - 1

RECURSIVE ParseInt(_)
ParseInt(str) ==
    IF Len(str) = 0 THEN 0
    ELSE 10 * ParseInt(SubSeq(str, 1, Len(str) - 1)) + DigitValue(str[Len(str)])

\* Math.round of the rational n/d (d > 0): floor(n/d + 1/2)
MathRound(n, d) == (2 * n + d) \div (2 * d)

\* a slip in the lightness offset (m = l - c for m = l - c / 2)
hslToRgbFullChromaOffset(hsl) ==
    IF ~(MatchesDigits(hsl.h) /\ MatchesDigits(hsl.s) /\ MatchesDigits(hsl.l))
    THEN <<0, 0, 0>>
    ELSE LET h  == ParseInt(hsl.h)
             sP == ParseInt(hsl.s)
             lP == ParseInt(hsl.l)
             cN == (100 - Abs(2 * lP - 100)) * sP
             xN == cN * (60 - Abs((h % 120) - 60))
             mN == (100 * lP - cN) * 60
             cc == cN * 60
             rgb == IF h >= 0 /\ h < 60 THEN <<cc, xN, 0>>
                    ELSE IF h >= 60 /\ h < 120 THEN <<xN, cc, 0>>
                    ELSE IF h >= 120 /\ h < 180 THEN <<0, cc, xN>>
                    ELSE IF h >= 180 /\ h < 240 THEN <<0, xN, cc>>
                    ELSE IF h >= 240 /\ h < 300 THEN <<xN, 0, cc>>
                    ELSE <<cc, 0, xN>>
         IN  << MathRound((rgb[1] + mN) * 255, 600000),
                MathRound((rgb[2] + mN) * 255, 600000),
                MathRound((rgb[3] + mN) * 255, 600000) >>

\* hslToRgb.  With s = S/100 and l = L/100 every intermediate value is a
\* multiple of 1/600000 and is computed exactly:
\*   c = cN/10000, x = xN/600000, m = mN/600000.
hslToRgb(hsl) ==
    IF ~(MatchesDigits(hsl.h) /\ MatchesDigits(hsl.s) /\ MatchesDigits(hsl.l))
    THEN <<0, 0, 0>>
    ELSE LET h  == ParseInt(hsl.h)
             sP == ParseInt(hsl.s)
             lP == ParseInt(hsl.l)
             cN == (100 - Abs(2 * lP - 100)) * sP
             xN == cN * (60 - Abs((h % 120) - 60))
             mN == (200 * lP - cN) * 30
             cc == cN * 60
             rgb == IF h >= 0 /\ h < 60 THEN <<cc, xN, 0>>
                    ELSE IF h >= 60 /\ h < 120 THEN <<xN, cc, 0>>
                    ELSE IF h >= 120 /\ h < 180 THEN <<0, cc, xN>>
                    ELSE IF h >= 180 /\ h < 240 THEN <<0, xN, cc>>
                    ELSE IF h >= 240 /\ h < 300 THEN <<xN, 0, cc>>
                    ELSE <<cc, 0, xN>>
         IN  << MathRound((rgb[1] + mN) * 255, 600000),
                MathRound((rgb[2] + mN) * 255, 600000),
                MathRound((rgb[3] + mN) * 255, 600000) >>

\* Math.floor(360 * iterations / maxIterations)
Hue(iterations, n) == (360 * iterations) \div n

\* a slip that normalises iterations + 1 instead of iterations
TableColorOffByOne(selectedPalette, iterations, n) ==
    LET len  == Len(selectedPalette)
        num  == (iterations + 1) * (len - 1)
        idx1 == num \div n
        idx2 == IF num % n = 0 THEN idx1 ELSE idx1 + 1
        rem  == num - idx1 * n
    IN  IF idx2 >= len THEN selectedPalette[len]
        ELSE LET c1 == selectedPalette[idx1 + 1]
                 c2 == selectedPalette[idx2 + 1]
             IN  << MathRound(c1[1] * n + (c2[1] - c1[1]) * rem, n),
                    MathRound(c1[2] * n + (c2[2] - c1[2]) * rem, n),
                    MathRound(c1[3] * n + (c2[3] - c1[3]) * rem, n) >>

\* a slip that interpolates by colorIndex instead of frac
TableColorByIndex(selectedPalette, iterations, n) ==
    LET len  == Len(selectedPalette)
        num  == iterations * (len - 1)
        idx1 == num \div n
        idx2 == IF num % n = 0 THEN idx1 ELSE idx1 + 1
    IN  IF idx2 >= len THEN selectedPalette[len]
        ELSE LET c1 == selectedPalette[idx1 + 1]
                 c2 == selectedPalette[idx2 + 1]
             IN  << MathRound(c1[1] * n + (c2[1] - c1[1]) * num, n),
                    MathRound(c1[2] * n + (c2[2] - c1[2]) * num, n),
                    MathRound(c1[3] * n + (c2[3] - c1[3]) * num, n) >>

\* lines 73-90: the table branch.  colorIndex = iterations * (len - 1) / n
TableColor(selectedPalette, iterations, n) ==
    LET len  == Len(selectedPalette)
        num  == iterations * (len - 1)
        idx1 == num \div n
        idx2 == IF num % n = 0 THEN idx1 ELSE idx1 + 1
        rem  == num - idx1 * n                      \* frac = rem / n
    IN  IF idx2 >= len THEN selectedPalette[len]
        ELSE LET c1 == selectedPalette[idx1 + 1]
                 c2 == selectedPalette[idx2 + 1]
             IN  << MathRound(c1[1] * n + (c2[1] - c1[1]) * rem, n),
                    MathRound(c1[2] * n + (c2[2] - c1[2]) * rem, n),
                    MathRound(c1[3] * n + (c2[3] - c1[3]) * rem, n) >>

\* the names the table object inherits that the model has, with the length
\* property of the function each one gives
InheritedFunctionLength == [constructor |-> 1, toString |-> 0]

\* lines 73-90 with selectedPalette a function object: it is truthy, has the
\* length len and no indexed property, so selectedPalette[i] is undefined.
\* colorIndex = value * (len - 1); with iterations < n, idx2 = Math.ceil of it
\* is 0 (or -0).  Line 80 returns the undefined selectedPalette[len - 1];
\* otherwise line 87 reads c1[0] of the undefined c1 and throws.
FunctionColor(len, iterations, n) ==
    LET num  == iterations * (len - 1)
        idx2 == -((-num) \div n)
    IN  IF idx2 >= len THEN "undefined" ELSE "TypeError"

\* a slip in the interior test (> for >=)
getColorStrict(iterations, n, palette) ==
    IF iterations > n THEN <<0, 0, 0>>
    ELSE IF palette = "Rainbow" THEN hslToRgb(HslString(Hue(iterations, n), 100, 50))
    ELSE IF palette \in DOMAIN palettes THEN TableColor(palettes[palette], iterations, n)
    ELSE IF palette \in DOMAIN InheritedFunctionLength
         THEN FunctionColor(InheritedFunctionLength[palette], iterations, n)
    ELSE hslToRgb(HslString(Hue(iterations, n), 100, 50))

\* palettes[palette] is a property read of an object literal: a name that is
\* not one of the seven tables is looked up in Object.prototype, which gives a
\* function for "constructor" (Object, of length 1) and for "toString" (of
\* length 0) and undefined only for a name it does not have either.
getColor(iterations, n, palette) ==
    IF iterations >= n THEN <<0, 0, 0>>
    ELSE IF palette = "Rainbow" THEN hslToRgb(HslString(Hue(iterations, n), 100, 50))
    ELSE IF palette \in DOMAIN palettes THEN TableColor(palettes[palette], iterations, n)
    ELSE IF palette \in DOMAIN InheritedFunctionLength
         THEN FunctionColor(InheritedFunctionLength[palette], iterations, n)
    ELSE hslToRgb(HslString(Hue(iterations, n), 100, 50))

-----------------------------------------------------------------------------
(* SpecEscape: one pixel's escape loop, step by step *)

\* sample points come out of the pixel mapping of a finite view; the Julia
\* constant is what Controls parsed with parseFloat, which is NaN for an
\* emptied number field
Samples == {Half(k) : k \in -MaxSample..MaxSample}
JuliaConstants == {Half(k) : k \in -MaxC..MaxC} \cup {NaN}

RasterIdle ==
    /\ width = 1 /\ height = 1 /\ zoom = Num(1)
    /\ panX = Num(0) /\ panY = Num(0)
    /\ colorPalette = "Viridis"
    /\ px = 0 /\ py = 0
    /\ color = <<0, 0, 0>>
    /\ imageData = <<>>
    /\ writeLog = <<>>
    /\ canvas = <<>>

InitEscape ==
    /\ ExtIdle
    /\ fractalType \in EscapeTypes
    /\ maxIterations \in 1..MaxIter
    /\ x0 \in Samples /\ y0 \in Samples
    /\ IF fractalType = "Julia"
       THEN cReal \in JuliaConstants /\ cImag \in JuliaConstants
       ELSE cReal = Num(0) /\ cImag = Num(0)
    /\ x = Num(0) /\ y = Num(0)
    /\ iteration = 0
    /\ trail = <<>>
    /\ pc = "branch"
    /\ RasterIdle
    /\ GLIdle

\* let iteration = 0; the branch is chosen and x, y get their start values
EnterBranch ==
    /\ pc = "branch"
    /\ LET p == StartPoint(fractalType, x0, y0)
       IN  x' = p[1] /\ y' = p[2] /\ trail' = <<p>>
    /\ pc' = "loop"
    /\ UNCHANGED <<extVars, glVars, fractalType, maxIterations, cReal, cImag, x0, y0, iteration, rasterVars>>

LoopStep(type) ==
    /\ pc = "loop"
    /\ fractalType = type
    /\ LoopCond(x, y, iteration, maxIterations)
    /\ LET k == ConstTerm(type, x0, y0, cReal, cImag)
           s == Body(type, x, y, k[1], k[2])
       IN  x' = s[1] /\ y' = s[2] /\ trail' = Append(trail, s)
    /\ iteration' = iteration + 1
    /\ UNCHANGED <<extVars, glVars, fractalType, maxIterations, cReal, cImag, x0, y0, rasterVars, pc>>

MandelbrotStep == LoopStep("Mandelbrot")
BurningShipStep == LoopStep("BurningShip")
JuliaStep == LoopStep("Julia")

LoopExit ==
    /\ pc = "loop"
    /\ ~LoopCond(x, y, iteration, maxIterations)
    /\ pc' = "exited"
    /\ UNCHANGED <<extVars, glVars, escapeVars, rasterVars>>

NextEscape ==
    \/ EnterBranch
    \/ MandelbrotStep
    \/ BurningShipStep
    \/ JuliaStep
    \/ LoopExit

SpecEscape == InitEscape /\ [][NextEscape]_vars

-----------------------------------------------------------------------------
(* SpecColor: calls of getColor *)

InitColor ==
    /\ ExtIdle
    /\ iteration \in 0..(MaxColorN + 1)
    /\ maxIterations \in 0..MaxColorN
    /\ colorPalette \in PaletteSelectors
    /\ color = <<0, 0, 0>>
    /\ pc = "call"
    /\ fractalType = "Mandelbrot"
    /\ cReal = Num(0) /\ cImag = Num(0)
    /\ x0 = Num(0) /\ y0 = Num(0) /\ x = Num(0) /\ y = Num(0)
    /\ trail = <<>>
    /\ width = 1 /\ height = 1 /\ zoom = Num(1)
    /\ panX = Num(0) /\ panY = Num(0)
    /\ px = 0 /\ py = 0
    /\ imageData = <<>> /\ writeLog = <<>> /\ canvas = <<>>
    /\ GLIdle

GetColorCall ==
    /\ pc = "call"
    /\ color' = getColor(iteration, maxIterations, colorPalette)
    /\ pc' = "returned"
    /\ UNCHANGED <<extVars, glVars, escapeVars, width, height, zoom, panX, panY, colorPalette, px, py,
                   imageData, writeLog, canvas>>

NextColor == GetColorCall

SpecColor == InitColor /\ [][NextColor]_vars

IsByte(v) == v \in 0..255

\* C9: for every table palette P and N > 0, getColor(0, N, P) is the first
\* control point of P's table.
C9_FirstControlPoint ==
    (pc = "returned" /\ iteration = 0 /\ maxIterations > 0 /\ colorPalette \in TablePalettes)
        => color = palettes[colorPalette][1]

C9_Witness ==
    /\ pc = "returned" /\ iteration = 0 /\ maxIterations > 1
    /\ colorPalette = "Plasma" /\ color = <<13, 8, 135>>

-----------------------------------------------------------------------------
(* Spec: one call of drawFractal for an escape-time fractal *)

\* x0 = ((px - width / 2) * 4) / (width * zoom) - panX, and y0 alike
SamplePoint(ppx, ppy, w, h, zm, pX, pY) ==
    << FSub[FDiv[FMul[FSub[Num(ppx), FDiv[Num(w), Num(2)]], Num(4)], FMul[Num(w), zm]], pX],
       FSub[FDiv[FMul[FSub[Num(ppy), FDiv[Num(h), Num(2)]], Num(4)], FMul[Num(w), zm]], pY] >>

\* a slip that strides by the column instead of the row
PixelIndexTransposed(ppx, ppy, w) == (ppx * w + ppy) * 4

PixelIndex(ppx, ppy, w) == (ppy * w + ppx) * 4

\* ctx.createImageData(width, height).data: transparent black
CreateData(w, h) == [i \in 0..(w * h * 4 - 1) |-> 0]

\* a store into a Uint8ClampedArray: clamped, and dropped outside the array
Store(data, i, v) ==
    IF i \in DOMAIN data
    THEN [data EXCEPT ![i] = IF v < 0 THEN 0 ELSE IF v > 255 THEN 255 ELSE v]
    ELSE data

\* lines 170-173
StorePixel(data, i, rgb) ==
    Store(Store(Store(Store(data, i, rgb[1]), i + 1, rgb[2]), i + 2, rgb[3]), i + 3, 255)

Dec(n, d) == Ratio[n, d, 0]                     \* the decimal literal n/d

\* getInitialPan of App
InitialPans == { <<Half(1), Num(0)>>, <<Half(1), Half(-1)>>, <<Num(0), Num(0)>> }
\* initialControlParams.cReal, cImag
InitialJulia == <<Dec(285, 1000), Dec(1, 100)>>

Init ==
    /\ ExtIdle
    /\ fractalType \in EscapeTypes
    /\ maxIterations \in 1..MaxIter
    /\ colorPalette \in PaletteSelectors
    /\ width \in 1..MaxW /\ height \in 1..MaxH
    /\ zoom \in {Num(1), Num(2)}
    /\ \E pan \in InitialPans : panX = pan[1] /\ panY = pan[2]
    /\ \E c \in (IF fractalType = "Julia"
                 THEN {InitialJulia, <<Num(0), Num(0)>>}
                 ELSE {InitialJulia}) : cReal = c[1] /\ cImag = c[2]
    /\ px = 0 /\ py = 0
    /\ x0 = Num(0) /\ y0 = Num(0) /\ x = Num(0) /\ y = Num(0)
    /\ iteration = 0
    /\ trail = <<>>
    /\ color = <<0, 0, 0>>
    /\ imageData = <<>>
    /\ writeLog = <<>>
    /\ canvas = <<>>
    /\ pc = "create"
    /\ GLIdle

\* lines 131-134
CreateImageData ==
    /\ pc = "create"
    /\ imageData' = CreateData(width, height)
    /\ px' = 0 /\ py' = 0
    /\ pc' = "pixel"
    /\ UNCHANGED <<extVars, glVars, escapeVars, width, height, zoom, panX, panY, colorPalette,
                   color, writeLog, canvas>>

\* lines 135-174: one pass of the inner loop body, and the loop headers' step
DrawPixel ==
    /\ pc = "pixel"
    /\ px < width /\ py < height
    /\ LET sp  == SamplePoint(px, py, width, height, zoom, panX, panY)
           run == EscapeTime(fractalType, sp[1], sp[2], cReal, cImag, maxIterations)
           rgb == getColor(run.iteration, maxIterations, colorPalette)
           pixelIndex == PixelIndex(px, py, width)
       IN  /\ x0' = sp[1] /\ y0' = sp[2]
           /\ iteration' = run.iteration
           /\ x' = run.trail[Len(run.trail)][1]
           /\ y' = run.trail[Len(run.trail)][2]
           /\ color' = rgb
           /\ imageData' = StorePixel(imageData, pixelIndex, rgb)
           /\ writeLog' = Append(writeLog, [px |-> px, py |-> py, index |-> pixelIndex,
                                            iteration |-> run.iteration, rgb |-> rgb])
    /\ IF py + 1 < height
       THEN px' = px /\ py' = py + 1
       ELSE px' = px + 1 /\ py' = 0
    /\ UNCHANGED <<extVars, glVars, fractalType, maxIterations, cReal, cImag, trail,
                   width, height, zoom, panX, panY, colorPalette, canvas, pc>>

\* line 177
PutImageData ==
    /\ pc = "pixel"
    /\ ~(px < width)
    /\ canvas' = imageData
    /\ pc' = "done"
    /\ UNCHANGED <<extVars, glVars, escapeVars, width, height, zoom, panX, panY, colorPalette, px, py,
                   color, imageData, writeLog>>

Next ==
    \/ CreateImageData
    \/ DrawPixel
    \/ PutImageData

Spec == Init /\ [][Next]_vars

Pixels == (0..(width - 1)) \X (0..(height - 1))
LogIndexes == 1..Len(writeLog)

\* C2: getColor returns (0,0,0) whenever iteration >= N, for every palette
\* selector, and so every pixel whose count equals maxIterations is written
\* as (0,0,0) by drawFractal whatever the palette.
C2_InteriorIsBlack ==
    /\ \A pal \in PaletteSelectors : \A it \in maxIterations..(maxIterations + 2) :
          getColor(it, maxIterations, pal) = <<0, 0, 0>>
    /\ \A i \in LogIndexes :
          LET e == writeLog[i]
          IN  e.iteration = maxIterations =>
                 /\ e.rgb = <<0, 0, 0>>
                 /\ \A k \in 0..2 : imageData[e.index + k] = 0
                 /\ pc = "done" => \A k \in 0..2 : canvas[e.index + k] = 0

C2_Witness ==
    /\ pc = "done"
    /\ colorPalette \in {"Rainbow", "Unknown", "Plasma"}
    /\ \E i \in LogIndexes : writeLog[i].iteration = maxIterations
    /\ \E i \in LogIndexes : writeLog[i].iteration < maxIterations /\ writeLog[i].rgb # <<0, 0, 0>>

\* C6: drawFractal writes every pixel (px,py) of the raster exactly once, at
\* byte offset (py*width+px)*4 of a freshly created buffer; distinct pixels
\* get distinct offsets, no write falls outside [0, width*height*4), and every
\* alpha byte is 255 when the buffer is handed to the display surface.
C6_EveryPixelOnce ==
    pc \in {"pixel", "done"} =>
        /\ DOMAIN imageData = 0..(width * height * 4 - 1)
        /\ \A i \in LogIndexes :
              LET e == writeLog[i]
              IN  /\ <<e.px, e.py>> \in Pixels
                  /\ e.index = (e.py * width + e.px) * 4
                  /\ e.index >= 0 /\ e.index + 3 < width * height * 4
                  /\ imageData[e.index + 3] = 255
        /\ \A i, j \in LogIndexes :
              i # j => /\ <<writeLog[i].px, writeLog[i].py>> # <<writeLog[j].px, writeLog[j].py>>
                       /\ writeLog[i].index # writeLog[j].index
        \* bytes no pixel was written to yet are those of the fresh buffer
        /\ \A k \in DOMAIN imageData :
              (\A i \in LogIndexes : k \notin writeLog[i].index..(writeLog[i].index + 3))
                  => imageData[k] = 0
        /\ pc = "done" =>
              /\ {<<writeLog[i].px, writeLog[i].py>> : i \in LogIndexes} = Pixels
              /\ Len(writeLog) = width * height
              /\ canvas = imageData
              /\ \A p \in Pixels : canvas[(p[2] * width + p[1]) * 4 + 3] = 255

C6_Witness ==
    /\ pc = "done" /\ width > 2 /\ height > 1
    /\ Len(writeLog) = width * height

-----------------------------------------------------------------------------
(* SpecGL: the effect of FractalCanvas (useEffect, lines 168-239) *)

ShaderOutcomes == {"ok", "null", "compileError"}
ProgramOutcomes == {"ok", "null", "linkError"}

\* a slip that drops the console.error of a failed compilation
createShaderSilent(outcome) ==
    [ returned |-> outcome = "ok",
      object   |-> IF outcome = "ok" THEN "live"
                   ELSE IF outcome = "null" THEN "none" ELSE "deleted",
      errors   |-> {} ]

\* createShader: gl.createShader gave null, or the compilation failed (logged,
\* shader deleted), or the shader is returned
createShader(outcome) ==
    [ returned |-> outcome = "ok",
      object   |-> IF outcome = "ok" THEN "live"
                   ELSE IF outcome = "null" THEN "none" ELSE "deleted",
      errors   |-> IF outcome = "compileError" THEN {"shaderInfoLog"} ELSE {} ]

\* createProgram: gl.createProgram gave null, or linking failed (logged,
\* program deleted), or the program is returned
createProgram(outcome) ==
    [ returned |-> outcome = "ok",
      object   |-> IF outcome = "ok" THEN "live"
                   ELSE IF outcome = "null" THEN "none" ELSE "deleted",
      errors   |-> IF outcome = "linkError" THEN {"programInfoLog"} ELSE {} ]

ShaderFailure(name, outcome) ==
    IF outcome = "null" THEN {name \o "Create"}
    ELSE IF outcome = "compileError" THEN {name \o "Compile"} ELSE {}

ProgramFailure(outcome) ==
    IF outcome = "null" THEN {"programCreate"}
    ELSE IF outcome = "linkError" THEN {"link"} ELSE {}

\* lines 175-206: the pipeline the effect builds before it starts the loop
InitPipeline(ctxOk, vsOutcome, fsOutcome, progOutcome) ==
    IF ~ctxOk
    THEN [ok |-> FALSE, failures |-> {"context"},
          errors |-> {"WebGL is not supported by your browser."}, gpu |-> NoGpu]
    ELSE LET vs == createShader(vsOutcome)
             fs == createShader(fsOutcome)
             shaders == [NoGpu EXCEPT !.vertexShader = vs.object, !.fragmentShader = fs.object]
             shaderFailures == ShaderFailure("vs", vsOutcome) \cup ShaderFailure("fs", fsOutcome)
         IN  IF ~vs.returned \/ ~fs.returned
             THEN [ok |-> FALSE, failures |-> shaderFailures,
                   errors |-> vs.errors \cup fs.errors, gpu |-> shaders]
             ELSE LET prog == createProgram(progOutcome)
                  IN  IF ~prog.returned
                      THEN [ok |-> FALSE, failures |-> ProgramFailure(progOutcome),
                            errors |-> prog.errors,
                            gpu |-> [shaders EXCEPT !.program = prog.object]]
                      ELSE [ok |-> TRUE, failures |-> {}, errors |-> {},
                            gpu |-> [shaders EXCEPT !.program = "live",
                                                    !.positionBuffer = "live"]]

\* a slip that calls requestAnimationFrame without storing the id it returns
renderDropsId(afid, fresh) ==
    [drawCalls |-> 1, requests |-> {fresh}, animationFrameId |-> afid]

\* a slip that draws once and does not ask for the next frame
renderOnce(afid, fresh) ==
    [drawCalls |-> 1, requests |-> {}, animationFrameId |-> afid]

\* render (lines 209-218): the uniforms are set, one gl.drawArrays, and
\* animationFrameId = requestAnimationFrame(render)
render(afid, fresh) ==
    [drawCalls |-> 1, requests |-> {fresh}, animationFrameId |-> fresh]

\* a slip that frees the GPU objects and leaves the frame request alone
cleanupKeepsFrame(queue, afid, g) ==
    [ rafQueue |-> queue,
      gpu |-> [program |-> "deleted", vertexShader |-> "deleted",
               fragmentShader |-> "deleted", positionBuffer |-> "deleted"] ]

\* cleanup (lines 223-229)
cleanup(queue, afid, g) ==
    [ rafQueue |-> {cb \in queue : cb.id # afid},
      gpu |-> [program |-> "deleted", vertexShader |-> "deleted",
               fragmentShader |-> "deleted", positionBuffer |-> "deleted"] ]

\* requestAnimationFrame returns an id no pending callback has and no closure
\* still holds; ids are only compared, so the least such id stands for it
FreshId(queue, afid) ==
    CHOOSE i \in 1..(Cardinality(queue) + 2) :
        /\ i # afid
        /\ \A cb \in queue : cb.id # i
        /\ \A j \in 1..(i - 1) : j = afid \/ \E cb \in queue : cb.id = j

\* the props a commit can bring: the start values, or one of them changed by
\* a rotate drag, a wheel event, a pan drag or a Render with another budget
CameraProps ==
    { BaseProps,
      [BaseProps EXCEPT !.cameraRotation = <<-1, 0>>],
      [BaseProps EXCEPT !.cameraDistance = 33],
      [BaseProps EXCEPT !.cameraTarget = <<0, 1>>],
      [BaseProps EXCEPT !.mandelbulbIterations = 510] }

DrawIdle ==
    /\ fractalType = "Mandelbulb"
    /\ maxIterations = 1
    /\ cReal = Num(0) /\ cImag = Num(0)
    /\ x0 = Num(0) /\ y0 = Num(0) /\ x = Num(0) /\ y = Num(0)
    /\ iteration = 0
    /\ trail = <<>>
    /\ RasterIdle
    /\ pc = "gl"

drawVars == <<escapeVars, rasterVars, pc>>

\* FractalCanvas is rendered for the first time with 2D or 3D params
InitGL ==
    /\ ExtIdle
    /\ is3D \in BOOLEAN
    /\ phase = "init"
    /\ effectStatus = "none"
    /\ failures = {}
    /\ consoleErrors = {}
    /\ gpu = NoGpu
    /\ rafQueue = {}
    /\ animationFrameId = 0
    /\ draws = 0
    /\ lastTick = NoTick
    /\ passDrew = FALSE
    /\ staleTickRan = FALSE
    /\ renderComplete = FALSE
    /\ committedProps = BaseProps
    /\ drawnWith = NoDraw
    /\ DrawIdle

\* the effect runs in 3D mode (after mount, or after a change of params or
\* cameraRotation); what the WebGL calls give is the host's choice
RunEffect3D ==
    /\ phase \in {"init", "commit"}
    /\ is3D
    /\ \E ctxOk \in BOOLEAN, vsOutcome \in ShaderOutcomes, fsOutcome \in ShaderOutcomes,
          progOutcome \in ProgramOutcomes :
          LET p == InitPipeline(ctxOk, vsOutcome, fsOutcome, progOutcome)
              fresh == FreshId(rafQueue, animationFrameId)
          IN  /\ failures' = p.failures
              /\ consoleErrors' = p.errors
              /\ gpu' = p.gpu
              /\ IF p.ok
                 THEN /\ rafQueue' = rafQueue \cup {[id |-> fresh, stale |-> FALSE,
                                                       props |-> committedProps]}
                      /\ animationFrameId' = fresh
                      /\ renderComplete' = TRUE
                      /\ effectStatus' = "running"
                 ELSE /\ UNCHANGED <<rafQueue, animationFrameId>>
                      /\ renderComplete' = FALSE
                      /\ effectStatus' = "failed"
    /\ draws' = 0
    /\ lastTick' = NoTick
    /\ passDrew' = FALSE
    /\ phase' = "idle"
    /\ UNCHANGED <<is3D, staleTickRan, committedProps, drawnWith, drawVars, extVars>>

\* the effect runs in 2D mode (lines 231-234)
RunEffect2D ==
    /\ phase \in {"init", "commit"}
    /\ ~is3D
    /\ \E ctxOk \in BOOLEAN :
          /\ effectStatus' = IF ctxOk THEN "drawn2d" ELSE "failed2d"
          /\ renderComplete' = ctxOk
          /\ failures' = IF ctxOk THEN {} ELSE {"context2d"}
    /\ consoleErrors' = {}
    /\ gpu' = NoGpu
    /\ draws' = 0
    /\ lastTick' = NoTick
    /\ passDrew' = FALSE
    /\ phase' = "idle"
    /\ UNCHANGED <<is3D, rafQueue, animationFrameId, staleTickRan, committedProps, drawnWith,
                   drawVars, extVars>>

\* React runs the cleanup the latest run of the effect returned, if any
RunCleanup ==
    IF effectStatus = "running"
    THEN LET c == cleanup(rafQueue, animationFrameId, gpu)
         IN  /\ rafQueue' = {[id |-> cb.id, stale |-> TRUE, props |-> cb.props] : cb \in c.rafQueue}
             /\ gpu' = c.gpu
             /\ effectStatus' = "cleaned"
    ELSE /\ UNCHANGED <<rafQueue, gpu>>
         /\ effectStatus' = "released"

\* params or cameraRotation changed: the old effect is cleaned up, the new one
\* runs next, in the same commit
PropsChange ==
    /\ phase = "idle"
    /\ is3D' \in BOOLEAN
    /\ committedProps' \in CameraProps
    /\ RunCleanup
    /\ phase' = "commit"
    /\ UNCHANGED <<failures, consoleErrors, animationFrameId, draws, lastTick, passDrew,
                   staleTickRan, renderComplete, drawnWith, drawVars, extVars>>

Unmount ==
    /\ phase = "idle"
    /\ RunCleanup
    /\ phase' = "unmounted"
    /\ UNCHANGED <<is3D, failures, consoleErrors, animationFrameId, draws, lastTick,
                   passDrew, staleTickRan, renderComplete, committedProps, drawnWith,
                   drawVars, extVars>>

\* the host runs one pending animation-frame callback
FrameTick ==
    /\ phase \in {"idle", "unmounted"}
    /\ \E cb \in rafQueue :
          LET rest  == rafQueue \ {cb}
              fresh == FreshId(rest, animationFrameId)
              r     == render(animationFrameId, fresh)
          IN  /\ rafQueue' = rest \cup {[id |-> i, stale |-> cb.stale, props |-> cb.props] :
                                          i \in r.requests}
              /\ drawnWith' = IF r.drawCalls > 0
                                THEN [frame |-> 1 - drawnWith.frame, props |-> cb.props]
                                ELSE drawnWith
              /\ lastTick' = [drawCalls |-> r.drawCalls, requests |-> Cardinality(r.requests)]
              /\ IF cb.stale
                 THEN /\ staleTickRan' = TRUE
                      /\ UNCHANGED <<animationFrameId, draws, passDrew>>
                 ELSE /\ animationFrameId' = r.animationFrameId
                      /\ draws' = (draws + r.drawCalls) % FrameWrap
                      /\ passDrew' = (passDrew \/ r.drawCalls > 0)
                      /\ UNCHANGED staleTickRan
    /\ UNCHANGED <<is3D, phase, effectStatus, failures, consoleErrors, gpu,
                   renderComplete, committedProps, drawVars, extVars>>

NextGL ==
    \/ RunEffect3D
    \/ RunEffect2D
    \/ PropsChange
    \/ Unmount
    \/ FrameTick

SpecGL == InitGL /\ [][NextGL]_vars

\* the host's frame clock keeps running, and React finishes a commit
FairSpecGL == SpecGL /\ WF_vars(FrameTick) /\ WF_vars(RunEffect3D) /\ WF_vars(RunEffect2D)

-----------------------------------------------------------------------------
(* Claims about the escape-time evaluator (SpecEscape) *)

InputsAreNumbers ==
    /\ ~x0.nan /\ ~y0.nan
    /\ fractalType = "Julia" => (~cReal.nan /\ ~cImag.nan)

Escaped == FGt[Radius2(x, y), Num(4)]
AnyLoopStep == MandelbrotStep \/ BurningShipStep \/ JuliaStep

C1_Range ==
    /\ iteration \in 0..maxIterations
    \* the loop is left exactly when its condition is false
    /\ pc = "exited" => ~LoopCond(x, y, iteration, maxIterations)
    /\ pc = "loop" => ((ENABLED AnyLoopStep) <=> LoopCond(x, y, iteration, maxIterations))
    \* for inputs that are numbers that is: escaped, or budget used up
    /\ InputsAreNumbers =>
          /\ ~x.nan /\ ~y.nan
          /\ pc = "exited" => (Escaped \/ iteration = maxIterations)
          /\ pc = "loop" =>
                ((ENABLED AnyLoopStep) <=> ~(Escaped \/ iteration = maxIterations))
    \* the loop never blocks before it is left
    /\ pc # "exited" => ENABLED NextEscape

C7_JuliaZeroEqualsMandelbrotBranch ==
    (pc = "exited" /\ fractalType = "Julia" /\ cReal = Num(0) /\ cImag = Num(0))
        => iteration = EscapeTime("Mandelbrot", x0, y0, cReal, cImag, maxIterations).iteration

\* C7 (amended): with Julia constant (0,0) the Julia branch goes through the
\* states, and ends with the count, of the Mandelbrot recurrence
\* x' = x*x - y*y + a, y' = 2*x*y + b run with constant term (a,b) = (0,0)
\* from the start value (x0,y0).  The Mandelbrot branch itself starts at (0,0)
\* with constant term (x0,y0); its count for budget N is one more than the
\* count of the Julia branch at (x0,y0) with Julia constant (x0,y0) and
\* budget N-1.
C7_JuliaZeroIsSeededMandelbrotRecurrence ==
    /\ (fractalType = "Julia" /\ cReal = Num(0) /\ cImag = Num(0) /\ pc # "branch") =>
          LET m == RunLoop("Mandelbrot", x0, y0, 0, maxIterations, Num(0), Num(0), <<(<<x0, y0>>)>>)
          IN  /\ Len(trail) <= Len(m.trail)
              /\ trail = SubSeq(m.trail, 1, Len(trail))
              /\ pc = "exited" => (iteration = m.iteration /\ trail = m.trail)
    /\ (fractalType = "Mandelbrot" /\ pc = "exited") =>
          iteration = 1 + EscapeTime("Julia", x0, y0, x0, y0, maxIterations - 1).iteration

C7_Witness ==
    /\ pc = "exited" /\ fractalType = "Julia"
    /\ cReal = Num(0) /\ cImag = Num(0)
    /\ x0 # Num(0) /\ y0 # Num(0) /\ ~x0.nan /\ ~y0.nan
    /\ iteration > 1 /\ iteration < maxIterations

\* x*y was non-negative in every state the body was applied to
ProductsNonNegative ==
    \A i \in 1..(Len(trail) - 1) : FGe[FMul[trail[i][1], trail[i][2]], Num(0)]

\* C8: when x*y >= 0 at every step of the Burning Ship trajectory, the Burning
\* Ship branch goes through the same (x,y) states as the Mandelbrot branch at
\* the same sample point and ends with the same iteration count.
C8_BurningShipEqualsMandelbrot ==
    (fractalType = "BurningShip" /\ pc # "branch" /\ ProductsNonNegative) =>
        LET m == EscapeTime("Mandelbrot", x0, y0, cReal, cImag, maxIterations)
        IN  /\ Len(trail) <= Len(m.trail)
            /\ trail = SubSeq(m.trail, 1, Len(trail))
            /\ pc = "exited" => (iteration = m.iteration /\ trail = m.trail)

C8_Witness ==
    /\ fractalType = "BurningShip" /\ pc = "exited" /\ ProductsNonNegative
    /\ iteration > 2
    /\ \E i \in 1..(Len(trail) - 1) : FGt[FMul[trail[i][1], trail[i][2]], Num(0)]
    /\ FGt[Num(0), y0]

-----------------------------------------------------------------------------
(* Claims about the 3D effect (SpecGL, FairSpecGL) *)

Running == effectStatus = "running"
AllDeleted == \A f \in DOMAIN gpu : gpu[f] = "deleted"
AllLive == \A f \in DOMAIN gpu : gpu[f] = "live"

\* C3: once the cleanup of a 3D effect has run, no frame tick of that effect
\* runs again, whichever tick was pending: no callback of it is left pending,
\* none has run, and no tick can run before the next effect; and the cleanup
\* has deleted the program, both shaders and the position buffer.
C3_NoTickAfterCleanup ==
    /\ \A cb \in rafQueue : ~cb.stale
    /\ ~staleTickRan
    /\ effectStatus = "cleaned" =>
          /\ rafQueue = {}
          /\ ~ENABLED FrameTick
          /\ AllDeleted

C3_Witness ==
    /\ effectStatus = "cleaned" /\ phase = "unmounted"
    /\ passDrew /\ lastTick.requests = 1
    /\ animationFrameId # 1

\* C4: after a successful 3D initialisation and until the cleanup runs, one
\* frame callback is always pending, every frame tick issues exactly one draw
\* call and schedules exactly one next tick, and under a fair frame clock
\* another frame is always drawn eventually.
C4_LoopNeverStops ==
    /\ [](Running => /\ Cardinality(rafQueue) = 1
                     /\ \A cb \in rafQueue : cb.id = animationFrameId /\ ~cb.stale
                     /\ ENABLED FrameTick)
    /\ [][(Running /\ FrameTick) =>
            /\ lastTick' = [drawCalls |-> 1, requests |-> 1]
            /\ draws' = (draws + 1) % FrameWrap
            /\ Cardinality(rafQueue') = 1
            /\ Running']_vars
    /\ \A k \in 0..(FrameWrap - 1) : (Running /\ draws = k) ~> (~Running \/ draws # k)

C4_Witness ==
    /\ Running /\ passDrew /\ draws = 0
    /\ lastTick = [drawCalls |-> 1, requests |-> 1]

ClaimedFailures == {"context", "vsCompile", "fsCompile", "link"}

\* C5: when obtaining the WebGL context, compiling either shader or linking
\* the program fails, that run of the effect issues no draw call and schedules
\* no animation frame, and a diagnostic is logged; frames are only ever
\* scheduled or drawn with the complete pipeline.
C5_NoDrawAfterFailedInit ==
    /\ effectStatus = "failed" => failures # {}
    /\ failures # {} =>
          /\ rafQueue = {}
          /\ ~ENABLED FrameTick
          /\ ~passDrew /\ lastTick = NoTick
          /\ ~Running
    /\ (failures \cap ClaimedFailures) # {} => consoleErrors # {}
    /\ Running => (AllLive /\ failures = {})
    /\ (\E cb \in rafQueue : ~cb.stale) => Running

C5_Witness ==
    /\ effectStatus = "failed" /\ phase = "idle"
    /\ failures = {"fsCompile"}
    /\ gpu.vertexShader = "live"
    /\ consoleErrors = {"shaderInfoLog"}

-----------------------------------------------------------------------------
(* SpecHsl: calls of hslToRgb *)

\* every part but the extension variables at rest, the program counter at p
CoreIdle(p) ==
    /\ fractalType = "Mandelbrot"
    /\ maxIterations = 1
    /\ cReal = Num(0) /\ cImag = Num(0)
    /\ x0 = Num(0) /\ y0 = Num(0) /\ x = Num(0) /\ y = Num(0)
    /\ iteration = 0
    /\ trail = <<>>
    /\ RasterIdle
    /\ GLIdle
    /\ pc = p

Percents == {0, 50, 100}

\* well-formed strings, and one the pattern rejects ("hsl(-1, 100%, 50%)")
HslInputs ==
    {HslString(h, s, l) : h \in 0..MaxHue, s \in Percents, l \in Percents}
        \cup {HslString(-1, 100, 50)}

InitHsl ==
    /\ hslArg \in HslInputs
    /\ MarchIdle /\ SierpIdle /\ AppIdle
    /\ CoreIdle("call")

HslToRgbCall ==
    /\ pc = "call"
    /\ color' = hslToRgb(hslArg)
    /\ pc' = "returned"
    /\ UNCHANGED <<extVars, glVars, escapeVars, width, height, zoom, panX, panY, colorPalette,
                   px, py, imageData, writeLog, canvas>>

NextHsl == HslToRgbCall

SpecHsl == InitHsl /\ [][NextHsl]_vars

\* C11: at saturation 100% and lightness 50%, hslToRgb yields (255,0,0) for
\* hue 0, (0,255,0) for hue 120 and (0,0,255) for hue 240.
C11_Primaries ==
    (pc = "returned" /\ hslArg.s = NumberToString(100) /\ hslArg.l = NumberToString(50)) =>
        /\ hslArg.h = NumberToString(0) => color = <<255, 0, 0>>
        /\ hslArg.h = NumberToString(120) => color = <<0, 255, 0>>
        /\ hslArg.h = NumberToString(240) => color = <<0, 0, 255>>

C11_Witness ==
    /\ pc = "returned"
    /\ hslArg = HslString(240, 100, 50)
    /\ color = <<0, 0, 255>>

-----------------------------------------------------------------------------
(* SpecFallback: getColor called with a selector that has no table *)

\* a name neither the table object nor Object.prototype has, and the
\* inherited names of the model
NoTableSelectors == {"Unknown"} \cup DOMAIN InheritedFunctionLength

InitFallback ==
    /\ ExtIdle
    /\ iteration \in 0..(MaxColorN + 1)
    /\ maxIterations \in 1..MaxColorN
    /\ colorPalette \in NoTableSelectors
    /\ color = <<0, 0, 0>>
    /\ pc = "call"
    /\ fractalType = "Mandelbrot"
    /\ cReal = Num(0) /\ cImag = Num(0)
    /\ x0 = Num(0) /\ y0 = Num(0) /\ x = Num(0) /\ y = Num(0)
    /\ trail = <<>>
    /\ width = 1 /\ height = 1 /\ zoom = Num(1)
    /\ panX = Num(0) /\ panY = Num(0)
    /\ px = 0 /\ py = 0
    /\ imageData = <<>> /\ writeLog = <<>> /\ canvas = <<>>
    /\ GLIdle

NextFallback == GetColorCall

SpecFallback == InitFallback /\ [][NextFallback]_vars

\* C12: for a selector that has no control-point table, getColor does not
\* fail and returns, for every iteration < maxIterations, the colour it
\* returns for Rainbow with the same iteration and maxIterations.
C12_NoTableFallsBackToRainbow ==
    (pc = "returned" /\ iteration < maxIterations) =>
        /\ color \notin {"TypeError", "undefined"}
        /\ color = getColor(iteration, maxIterations, "Rainbow")

\* what holds: a selector that misses the property lookup altogether gets
\* the Rainbow colour
FallbackOnLookupMiss ==
    (pc = "returned" /\ iteration < maxIterations
        /\ colorPalette \notin DOMAIN InheritedFunctionLength) =>
        color = hslToRgb(HslString(Hue(iteration, maxIterations), 100, 50))

(***************************************************************************)
(* The ray march of the fragment shader's main, for one fragment.          *)
(* Distances are whole multiples of MIN_DIST (0.0001), so MAX_DIST (100.0) *)
(* is 1000000.  The value mandelbulbDE returns for the current point is an *)
(* input of each pass, drawn from Estimates; the shading of a lit fragment *)
(* (normal, lights, fog) is not computed: its result is any colour of      *)
(* SurfaceColors.  Black times the fog factor is black.                    *)
(***************************************************************************)
MIN_DIST == 1
MAX_DIST == 1000000

Estimates == {-1, 1, 400000, 1000000, 1500000}

SurfaceColors == {<<60, 50, 40>>, <<0, 20, 90>>}

Black == <<0, 0, 0>>

MarchBreaksOnHitOnly(d, td) == d < MIN_DIST

\* line 86: the test that leaves the loop
MarchBreaks(d, td) == d < MIN_DIST \/ td > MAX_DIST

ShadeGateOnEstimate(d, td) == d < MAX_DIST

\* line 93: the test that guards the shading, d being the last res.x
ShadeGate(d, td) == td < MAX_DIST

LastEstimate == IF estimates = <<>> THEN 0 ELSE estimates[Len(estimates)]

InitMarch ==
    /\ u_maxSteps \in 1..MaxSteps
    /\ marchI = 0 /\ total_dist = 0
    /\ estimates = <<>>
    /\ lit = FALSE
    /\ gl_FragColor = NoColor
    /\ HslIdle /\ SierpIdle /\ AppIdle
    /\ CoreIdle("march")

\* lines 83-88, a pass that reaches the end of the loop body
MarchAdvance ==
    /\ pc = "march"
    /\ marchI < u_maxSteps
    /\ \E d \in Estimates :
          /\ ~MarchBreaks(d, total_dist)
          /\ estimates' = Append(estimates, d)
          /\ total_dist' = total_dist + d
    /\ marchI' = marchI + 1
    /\ UNCHANGED <<u_maxSteps, lit, gl_FragColor, hslVars, sierpVars, appVars, glVars, escapeVars, rasterVars, pc>>

\* lines 83-86, a pass that breaks
MarchBreak ==
    /\ pc = "march"
    /\ marchI < u_maxSteps
    /\ \E d \in Estimates :
          /\ MarchBreaks(d, total_dist)
          /\ estimates' = Append(estimates, d)
    /\ pc' = "shade"
    /\ UNCHANGED <<u_maxSteps, marchI, total_dist, lit, gl_FragColor, hslVars, sierpVars, appVars, glVars,
                   escapeVars, rasterVars>>

\* line 83, the loop condition fails
MarchExhausted ==
    /\ pc = "march"
    /\ marchI >= u_maxSteps
    /\ pc' = "shade"
    /\ UNCHANGED <<u_maxSteps, marchI, total_dist, estimates, lit, gl_FragColor, hslVars, sierpVars, appVars,
                   glVars, escapeVars, rasterVars>>

\* lines 91-117
Emit ==
    /\ pc = "shade"
    /\ lit' = ShadeGate(LastEstimate, total_dist)
    /\ IF lit'
         THEN \E c \in SurfaceColors : gl_FragColor' = [rgb |-> c, a |-> 1]
         ELSE gl_FragColor' = [rgb |-> Black, a |-> 1]
    /\ pc' = "emitted"
    /\ UNCHANGED <<u_maxSteps, marchI, total_dist, estimates, hslVars, sierpVars, appVars, glVars, escapeVars,
                   rasterVars>>

NextMarch == MarchAdvance \/ MarchBreak \/ MarchExhausted \/ Emit

SpecMarch == InitMarch /\ [][NextMarch]_vars

RECURSIVE SumTo(_, _)
SumTo(s, k) == IF k = 0 THEN 0 ELSE SumTo(s, k - 1) + s[k]

\* some prefix of the returned estimates, none of them below MIN_DIST, adds up
\* to more than MAX_DIST
ExceededBeforeHit ==
    \E k \in 1..Len(estimates) :
        /\ SumTo(estimates, k) > MAX_DIST
        /\ \A j \in 1..k : estimates[j] >= MIN_DIST

\* C13: a fragment whose accumulated distance exceeded MAX_DIST before any
\* estimate fell below MIN_DIST is emitted as exactly (0, 0, 0) with alpha 1.
C13_MissIsBlack ==
    (pc = "emitted" /\ ExceededBeforeHit) => gl_FragColor = [rgb |-> Black, a |-> 1]

C13_Witness ==
    /\ pc = "emitted" /\ ExceededBeforeHit
    /\ Len(estimates) = 4
    /\ gl_FragColor = [rgb |-> Black, a |-> 1]

NoHit == \A j \in 1..Len(estimates) : estimates[j] >= MIN_DIST

StoppedOnHit == estimates # <<>> /\ LastEstimate < MIN_DIST

\* C16 (as stated): the loop evaluates the estimator at most u_maxSteps times,
\* a fragment is lit only if the march stopped on an estimate below MIN_DIST,
\* and a ray that never got such an estimate is emitted black.
C16_LitOnlyOnHit ==
    /\ Len(estimates) <= u_maxSteps
    /\ (pc = "emitted" /\ lit) => StoppedOnHit
    /\ (pc = "emitted" /\ NoHit) => gl_FragColor = [rgb |-> Black, a |-> 1]

\* C16 (amended): the loop evaluates the estimator at most u_maxSteps times and
\* makes no evaluation after an estimate below MIN_DIST or after one made with
\* the accumulated distance above MAX_DIST; a fragment is lit exactly when the
\* accumulated distance ends below MAX_DIST, otherwise it is black; a lit
\* fragment without an estimate below MIN_DIST is one whose budget ran out.
C16_LitIffWithinFarLimit ==
    /\ Len(estimates) <= u_maxSteps
    /\ \A j \in 1..(Len(estimates) - 1) :
          estimates[j] >= MIN_DIST /\ SumTo(estimates, j - 1) <= MAX_DIST
    /\ pc = "emitted" =>
          /\ lit <=> total_dist < MAX_DIST
          /\ ~lit => gl_FragColor = [rgb |-> Black, a |-> 1]
          /\ lit => gl_FragColor.rgb \in SurfaceColors /\ gl_FragColor.a = 1
          /\ (lit /\ NoHit) => (marchI = u_maxSteps /\ Len(estimates) = u_maxSteps)

C16_Witness ==
    /\ pc = "emitted" /\ lit /\ NoHit
    /\ u_maxSteps = 3 /\ Len(estimates) = 3
    /\ gl_FragColor.rgb \in SurfaceColors

(***************************************************************************)
(* drawSierpinskiTriangle.  The loop is followed pass by pass with its     *)
(* counter and the number of 1 x 1 rectangles filled.  The coordinates of  *)
(* p are not computed: p is kept as the vertex the last midpoint step      *)
(* moved towards, which Math.random picks.                                 *)
(***************************************************************************)
numPoints == 75000

SettleIndex == 20

MidColor(palette) == palette[(Len(palette) \div 2) + 1]

\* line 118: the test that guards the plot
Plots(i) == i > SettleIndex

InitSierpinski ==
    /\ HslIdle /\ MarchIdle /\ SierpIdle /\ AppIdle
    /\ fractalType = "Sierpinski"
    /\ maxIterations = 1
    /\ cReal = Num(0) /\ cImag = Num(0)
    /\ x0 = Num(0) /\ y0 = Num(0) /\ x = Num(0) /\ y = Num(0)
    /\ iteration = 0
    /\ trail = <<>>
    /\ width = MaxW /\ height = MaxH /\ zoom = Num(1)
    /\ panX = Num(0) /\ panY = Num(0)
    /\ colorPalette \in {"Viridis", "Rainbow"}
    /\ px = 0 /\ py = 0
    /\ color = <<0, 0, 0>>
    /\ imageData = <<>>
    /\ writeLog = <<>>
    /\ canvas = <<>>
    /\ GLIdle
    /\ pc = "sierpinski"

\* lines 94-111: background, vertices, fill colour, random start
SierpinskiBegin ==
    /\ pc = "sierpinski"
    /\ canvas' = [k \in 1..(4 * width * height) |-> IF k % 4 = 0 THEN 255 ELSE 0]
    /\ fillStyle' = MidColor(IF colorPalette \in DOMAIN palettes
                               THEN palettes[colorPalette] ELSE palettes["Viridis"])
    /\ sierpP' = 0
    /\ sierpI' = 0
    /\ pc' = "points"
    /\ UNCHANGED <<pointFills, lastFill, hslVars, marchVars, appVars, glVars, escapeVars, width, height,
                   zoom, panX, panY, colorPalette, px, py, color, imageData, writeLog>>

\* lines 113-120: one pass of the loop
SierpinskiPoint ==
    /\ pc = "points"
    /\ sierpI < numPoints
    /\ \E targetVertex \in 1..3 : sierpP' = targetVertex
    /\ IF Plots(sierpI)
         THEN /\ pointFills' = pointFills + 1
              /\ lastFill' = [i |-> sierpI, p |-> sierpP']
         ELSE UNCHANGED <<pointFills, lastFill>>
    /\ sierpI' = sierpI + 1
    /\ UNCHANGED <<fillStyle, hslVars, marchVars, appVars, glVars, escapeVars, rasterVars, pc>>

\* line 113: the loop condition fails
SierpinskiReturn ==
    /\ pc = "points"
    /\ sierpI >= numPoints
    /\ pc' = "returned"
    /\ UNCHANGED <<extVars, glVars, escapeVars, rasterVars>>

NextSierpinski == SierpinskiBegin \/ SierpinskiPoint \/ SierpinskiReturn

SpecSierpinski == InitSierpinski /\ [][NextSierpinski]_vars

\* C14 (as stated): the loop makes exactly 75,000 midpoint steps; the first 20
\* plot nothing and each later one plots once, 74,980 plots in all.
C14_First20Unplotted ==
    /\ pc = "points" =>
          pointFills = (IF sierpI <= 20 THEN 0 ELSE sierpI - 20)
    /\ pc = "returned" => (sierpI = 75000 /\ pointFills = 74980)

\* what the loop does: 75,000 midpoint steps, none of the first 21 plotted
SierpinskiCounts ==
    /\ pc = "points" =>
          pointFills = (IF sierpI <= SettleIndex + 1 THEN 0 ELSE sierpI - (SettleIndex + 1))
    /\ pc = "returned" => (sierpI = numPoints /\ pointFills = numPoints - (SettleIndex + 1))

C14_Witness == pc = "returned" /\ sierpI = 75000 /\ pointFills = 74979 /\ lastFill.i = 74999

-----------------------------------------------------------------------------
(* App, Controls and the event handlers of FractalCanvas *)

CANVAS_WIDTH == 800
CANVAS_HEIGHT == 600

is2DInteractive(type) == type \in {"Mandelbrot", "Julia", "BurningShip"}

getInitialPan(type) ==
    IF type = "Mandelbrot" THEN <<Half(1), Num(0)>>
    ELSE IF type = "BurningShip" THEN <<Half(1), Half(-1)>>
    ELSE <<Num(0), Num(0)>>

\* Math.max of two numbers
MathMax(a, b) == IF a.nan \/ b.nan THEN NaN ELSE IF FGe[a, b] THEN a ELSE b

\* ((mouse - size / 2) * 4) / (params.width * zoom)
WheelOffset(mouse, size, w, zm) ==
    XDiv[XMul[XSub[Num(mouse), XDiv[Num(size), Num(2)]], Num(4)], XMul[Num(w), zm]]

\* a slip that takes the new pan at the old zoom
handleWheelAtOldZoom(params, e) ==
    LET oldZoom == params.zoom
        newZoom == IF e.deltaY < 0 THEN XMul[oldZoom, Dec(115, 100)]
                   ELSE XDiv[oldZoom, Dec(115, 100)]
        mouseCoordX == XSub[WheelOffset(e.mouseX, params.width, params.width, oldZoom), params.panX]
        mouseCoordY == XSub[WheelOffset(e.mouseY, params.height, params.width, oldZoom), params.panY]
    IN  [ kind |-> "view",
          panX |-> XSub[WheelOffset(e.mouseX, params.width, params.width, oldZoom), mouseCoordX],
          panY |-> XSub[WheelOffset(e.mouseY, params.height, params.width, oldZoom), mouseCoordY],
          zoom |-> newZoom ]

\* handleWheel of FractalCanvas: what it passes to onCameraChange or onViewChange
handleWheel(params, e) ==
    IF params.fractalType = "Mandelbulb"
    THEN LET newDistance == IF e.deltaY < 0 THEN XDiv[params.cameraDistance, Dec(11, 10)]
                            ELSE XMul[params.cameraDistance, Dec(11, 10)]
         IN  [kind |-> "camera", distance |-> MathMax(Dec(1, 10), newDistance)]
    ELSE IF params.fractalType = "Sierpinski" THEN NoView
    ELSE
    LET oldZoom == params.zoom
        newZoom == IF e.deltaY < 0 THEN XMul[oldZoom, Dec(115, 100)]
                   ELSE XDiv[oldZoom, Dec(115, 100)]
        mouseCoordX == XSub[WheelOffset(e.mouseX, params.width, params.width, oldZoom), params.panX]
        mouseCoordY == XSub[WheelOffset(e.mouseY, params.height, params.width, oldZoom), params.panY]
    IN  [ kind |-> "view",
          panX |-> XSub[WheelOffset(e.mouseX, params.width, params.width, newZoom), mouseCoordX],
          panY |-> XSub[WheelOffset(e.mouseY, params.height, params.width, newZoom), mouseCoordY],
          zoom |-> newZoom ]

\* initialControlParams and the initial useState values of App
InitialParams ==
    [ fractalType |-> "Mandelbrot", zoom |-> Num(1), iterations |-> 200,
      cReal |-> InitialJulia[1], cImag |-> InitialJulia[2], colorPalette |-> "Viridis",
      mandelbulbIterations |-> 500, panX |-> Half(1), panY |-> Num(0),
      width |-> CANVAS_WIDTH, height |-> CANVAS_HEIGHT,
      cameraDistance |-> Num(3), cameraTarget |-> [x |-> Num(0), y |-> Num(0)] ]

(***************************************************************************)
(* SpecWheel: one call of handleWheel, for every fractal type, a few       *)
(* views and a few positions of the mouse.                                 *)
(***************************************************************************)
WheelZooms == {Dec(1, 100), Num(1), Half(5), Num(500)}
WheelPans == InitialPans \cup { <<Half(-1), Dec(1, 10)>> }
WheelCoordinates == {0, 100, 352, 400, 800}

AppIdleBut(keep) ==
    /\ "renderParams" \in keep \/ renderParams = <<>>
    /\ cameraRotation = <<>>
    /\ isRendering = FALSE
    /\ animationRef = <<>>
    /\ elapsedTime = 0
    /\ frames = {}
    /\ effectDue = FALSE
    /\ contextMode = "none"
    /\ localStorage = <<>>
    /\ isDragging2D = FALSE
    /\ "wheelEvent" \in keep \/ wheelEvent = NoWheel
    /\ viewRequest = NoView
    /\ uiEvents = <<>>

InitWheel ==
    /\ \E type \in FractalType, zm \in WheelZooms, pan \in WheelPans :
          renderParams = [InitialParams EXCEPT !.fractalType = type, !.zoom = zm,
                                               !.panX = pan[1], !.panY = pan[2]]
    /\ \E mx \in WheelCoordinates, my \in WheelCoordinates, dy \in {-100, 100} :
          wheelEvent = [mouseX |-> mx, mouseY |-> my, deltaY |-> dy]
    /\ AppIdleBut({"renderParams", "wheelEvent"})
    /\ HslIdle /\ MarchIdle /\ SierpIdle
    /\ CoreIdle("call")

HandleWheelCall ==
    /\ pc = "call"
    /\ viewRequest' = handleWheel(renderParams, wheelEvent)
    /\ pc' = "returned"
    /\ UNCHANGED <<renderParams, cameraRotation, isRendering, animationRef, elapsedTime, frames,
                   effectDue, contextMode, localStorage, isDragging2D, wheelEvent, uiEvents,
                   hslVars, marchVars, sierpVars, glVars, escapeVars, rasterVars>>

NextWheel == HandleWheelCall

SpecWheel == InitWheel /\ [][NextWheel]_vars

\* the plane point drawFractal gives the pixel under the mouse, in a view
UnderMouse(view) ==
    SamplePoint(wheelEvent.mouseX, wheelEvent.mouseY, renderParams.width, renderParams.height,
                view.zoom, view.panX, view.panY)

\* |a - b| <= 2^(2 - Precision) * scale: a and b differ by rounding only
Near(a, b, scale) ==
    FLe[FAbs[FSub[a, b]], FMul[[nan |-> FALSE, m |-> 1, e |-> 2 - Precision], scale]]

ViewRequested == pc = "returned" /\ viewRequest.kind = "view"

-----------------------------------------------------------------------------
(* Claims about the camera props of the 3D loop (SpecGL) *)

-----------------------------------------------------------------------------
(***************************************************************************)
(* SpecApp: the App component with Controls and FractalCanvas mounted.     *)
(* A handler with the state updates it queues and React's commit of them   *)
(* is one step; the effect of FractalCanvas that the commit makes due runs *)
(* before the next handler or frame callback.  Times are milliseconds      *)
(* since the start of the running view animation.  The 3D drags are left   *)
(* out; the wheel event and the mouse drags happen at the canvas centre    *)
(* and at one other point.                                                 *)
(***************************************************************************)
ANIMATION_DURATION == 300

FrameGaps == {150, 300}

easeInOutQuad(t) ==
    IF FGt[Half(1), t]
    THEN XMul[XMul[Num(2), t], t]
    ELSE XAdd[Num(-1), XMul[XSub[Num(4), XMul[Num(2), t]], t]]

\* start + (target - start) * easedProgress
Interpolate(start, target, eased) == XAdd[start, XMul[XSub[target, start], eased]]

\* requestAnimationFrame returns an id that is not pending and not the one
\* the ref still holds; ids are only compared
NextFrameId == CHOOSE i \in 1..3 : i \notin frames /\ i # animationRef.animationFrameId

\* JSON.stringify writes a number that is not finite as null
JsonNumber(v) == IF IsFinite(v) THEN [null |-> FALSE, value |-> v]
                 ELSE [null |-> TRUE, value |-> Num(0)]

\* a null read back by JSON.parse converts to 0 wherever it is used as a number
FromJson(j) == IF j.null THEN Num(0) ELSE j.value

NoSettings == [saved |-> FALSE]

InitApp ==
    /\ renderParams = InitialParams
    /\ isRendering = TRUE
    /\ cameraRotation = [x |-> Num(0), y |-> Num(0)]
    /\ animationRef = [ startTime |-> "null",
                        startView  |-> [panX |-> Num(0), panY |-> Num(0), zoom |-> Num(1)],
                        targetView |-> [panX |-> Num(0), panY |-> Num(0), zoom |-> Num(1)],
                        animationFrameId |-> 0 ]
    /\ elapsedTime = 0
    /\ frames = {}
    /\ effectDue = TRUE
    /\ contextMode = "none"
    /\ localStorage = NoSettings
    /\ isDragging2D = FALSE
    /\ wheelEvent = NoWheel
    /\ viewRequest = NoView
    /\ uiEvents = [click |-> MaxClick, wheel |-> MaxWheel, move |-> MaxMove, last |-> "mount"]
    /\ HslIdle /\ MarchIdle /\ SierpIdle
    /\ CoreIdle("app")

restVars == <<hslVars, marchVars, sierpVars, glVars, escapeVars, rasterVars, pc>>

Spend(kind, name) == [uiEvents EXCEPT ![kind] = @ - 1, !.last = name]

\* handleRender of App
HandleRender(newParams, name) ==
    LET isTypeChange == renderParams.fractalType # newParams.fractalType
        initialPan   == getInitialPan(newParams.fractalType)
        toBulb       == isTypeChange /\ newParams.fractalType = "Mandelbulb"
    IN  /\ isRendering' = TRUE
        /\ frames' = frames \ {animationRef.animationFrameId}
        /\ animationRef' = [animationRef EXCEPT !.animationFrameId = 0]
        /\ cameraRotation' = IF toBulb THEN [x |-> Num(0), y |-> Num(0)] ELSE cameraRotation
        /\ renderParams' =
              [ fractalType |-> newParams.fractalType,
                iterations |-> newParams.iterations,
                cReal |-> newParams.cReal, cImag |-> newParams.cImag,
                colorPalette |-> newParams.colorPalette,
                mandelbulbIterations |-> newParams.mandelbulbIterations,
                cameraDistance |-> IF toBulb THEN Num(3) ELSE renderParams.cameraDistance,
                cameraTarget |-> IF toBulb THEN [x |-> Num(0), y |-> Num(0)]
                                 ELSE renderParams.cameraTarget,
                width |-> CANVAS_WIDTH, height |-> CANVAS_HEIGHT,
                zoom |-> XDiv[newParams.zoom, Num(100)],
                panX |-> IF isTypeChange THEN initialPan[1] ELSE renderParams.panX,
                panY |-> IF isTypeChange THEN initialPan[2] ELSE renderParams.panY ]
        /\ effectDue' = TRUE
        /\ uiEvents' = Spend("click", name)
        /\ UNCHANGED <<elapsedTime, contextMode, localStorage, isDragging2D, wheelEvent,
                       viewRequest, restVars>>

\* what the useEffect of Controls copies from currentParams
SyncedControls ==
    [ fractalType |-> renderParams.fractalType,
      zoom |-> XMul[renderParams.zoom, Num(100)],
      iterations |-> renderParams.iterations,
      cReal |-> renderParams.cReal, cImag |-> renderParams.cImag,
      colorPalette |-> renderParams.colorPalette,
      mandelbulbIterations |-> renderParams.mandelbulbIterations ]

\* the sliders at their least values and near their greatest (49920 is the
\* greatest zoom value up to 50000 that a number of Precision bits holds)
SliderEnds == { [zoom |-> 1, iterations |-> 50, mandelbulbIterations |-> 50],
                [zoom |-> 49920, iterations |-> 2000, mandelbulbIterations |-> 1000] }

\* the state of Controls after the user chose a type and left the sliders
\* alone or moved all enabled ones to one end
ControlStates ==
    { [SyncedControls EXCEPT !.fractalType = type] : type \in FractalType }
    \cup
    { [SyncedControls EXCEPT
          !.fractalType = type,
          !.zoom = IF type \in EscapeTypes THEN Num(ends.zoom) ELSE @,
          !.iterations = IF type \in EscapeTypes THEN ends.iterations ELSE @,
          !.mandelbulbIterations = ends.mandelbulbIterations] :
        type \in FractalType, ends \in SliderEnds }

\* the Render button: handleRenderClick
RenderClick ==
    /\ ~isRendering /\ ~effectDue /\ uiEvents.click > 0
    /\ \E controls \in ControlStates : HandleRender(controls, "Render")

\* the Reset View button: handleResetClick
ResetClick ==
    /\ ~isRendering /\ ~effectDue /\ uiEvents.click > 0
    /\ HandleRender([SyncedControls EXCEPT
                        !.fractalType = "Mandelbrot", !.zoom = Num(100), !.iterations = 200,
                        !.cReal = InitialJulia[1], !.cImag = InitialJulia[2],
                        !.colorPalette = "Viridis", !.mandelbulbIterations = 500], "Reset")

\* the Save button: handleSaveSettings
SaveClick ==
    /\ ~isRendering /\ ~effectDue /\ uiEvents.click > 0
    /\ localStorage' =
          [ saved |-> TRUE,
            fractalType |-> renderParams.fractalType,
            zoom |-> JsonNumber(XMul[renderParams.zoom, Num(100)]),
            iterations |-> renderParams.iterations,
            cReal |-> JsonNumber(renderParams.cReal),
            cImag |-> JsonNumber(renderParams.cImag),
            colorPalette |-> renderParams.colorPalette,
            panX |-> JsonNumber(renderParams.panX),
            panY |-> JsonNumber(renderParams.panY),
            mandelbulbIterations |-> renderParams.mandelbulbIterations ]
    /\ uiEvents' = Spend("click", "Save")
    /\ UNCHANGED <<renderParams, cameraRotation, isRendering, animationRef, elapsedTime, frames,
                   effectDue, contextMode, isDragging2D, wheelEvent, viewRequest, restVars>>

\* the Load button: handleLoadSettings
LoadClick ==
    /\ ~isRendering /\ ~effectDue /\ uiEvents.click > 0
    /\ localStorage.saved
    /\ frames' = frames \ {animationRef.animationFrameId}
    /\ isRendering' = TRUE
    /\ cameraRotation' = [x |-> Num(0), y |-> Num(0)]
    /\ renderParams' =
          [renderParams EXCEPT
              !.fractalType = localStorage.fractalType,
              !.iterations = localStorage.iterations,
              !.cReal = FromJson(localStorage.cReal),
              !.cImag = FromJson(localStorage.cImag),
              !.colorPalette = localStorage.colorPalette,
              !.panX = FromJson(localStorage.panX),
              !.panY = FromJson(localStorage.panY),
              !.mandelbulbIterations = localStorage.mandelbulbIterations,
              !.zoom = XDiv[FromJson(localStorage.zoom), Num(100)],
              !.cameraDistance = Num(3),
              !.cameraTarget = [x |-> Num(0), y |-> Num(0)]]
    /\ effectDue' = TRUE
    /\ uiEvents' = Spend("click", "Load")
    /\ UNCHANGED <<animationRef, elapsedTime, contextMode, localStorage, isDragging2D,
                   wheelEvent, viewRequest, restVars>>

\* handleViewChange of App
HandleViewChange(view) ==
    IF ~is2DInteractive(renderParams.fractalType)
    THEN /\ isRendering' = TRUE
         /\ renderParams' = [renderParams EXCEPT !.panX = view.panX, !.panY = view.panY,
                                                 !.zoom = view.zoom]
         /\ effectDue' = TRUE
         /\ UNCHANGED <<animationRef, elapsedTime, frames>>
    ELSE LET rest == frames \ {animationRef.animationFrameId}
             id   == NextFrameId
         IN  /\ isRendering' = TRUE
             /\ animationRef' =
                   [ startTime |-> "null",
                     startView |-> [panX |-> renderParams.panX, panY |-> renderParams.panY,
                                    zoom |-> renderParams.zoom],
                     targetView |-> [panX |-> view.panX, panY |-> view.panY, zoom |-> view.zoom],
                     animationFrameId |-> id ]
             /\ elapsedTime' = 0
             /\ frames' = rest \cup {id}
             /\ UNCHANGED <<renderParams, effectDue>>

\* handleCameraChange of App with a distance
HandleCameraDistance(distance) ==
    /\ IF distance.nan \/ distance.m = 0
       THEN UNCHANGED <<renderParams, effectDue>>
       ELSE /\ renderParams' = [renderParams EXCEPT !.cameraDistance = distance]
            /\ effectDue' = TRUE
    /\ UNCHANGED <<isRendering, animationRef, elapsedTime, frames>>

WheelEvents ==
    { [mouseX |-> CANVAS_WIDTH \div 2, mouseY |-> CANVAS_HEIGHT \div 2, deltaY |-> dy] :
        dy \in {-100, 100} }

\* a wheel event on the canvas: handleWheel
WheelWith(e) ==
    /\ ~effectDue /\ uiEvents.wheel > 0
    /\ LET request == handleWheel(renderParams, e)
       IN  /\ request.kind # "none"
           /\ wheelEvent' = e
           /\ viewRequest' = request
           /\ IF request.kind = "camera"
              THEN HandleCameraDistance(request.distance)
              ELSE HandleViewChange(request)
    /\ uiEvents' = Spend("wheel", "wheel")
    /\ UNCHANGED <<cameraRotation, contextMode, localStorage, isDragging2D, restVars>>

Wheel == \E e \in WheelEvents : WheelWith(e)

\* handleMouseDown on a 2D canvas
MouseDown ==
    /\ ~effectDue /\ ~isDragging2D
    /\ is2DInteractive(renderParams.fractalType)
    /\ isDragging2D' = TRUE
    /\ UNCHANGED <<renderParams, cameraRotation, isRendering, animationRef, elapsedTime, frames,
                   effectDue, contextMode, localStorage, wheelEvent, viewRequest, uiEvents,
                   restVars>>

\* handleMouseUpOrLeave
MouseUp ==
    /\ ~effectDue /\ isDragging2D
    /\ isDragging2D' = FALSE
    /\ UNCHANGED <<renderParams, cameraRotation, isRendering, animationRef, elapsedTime, frames,
                   effectDue, contextMode, localStorage, wheelEvent, viewRequest, uiEvents,
                   restVars>>

\* (d * 4) / (params.width * params.zoom)
DragOffset(d) == XDiv[XMul[Num(d), Num(4)], XMul[Num(renderParams.width), renderParams.zoom]]

\* handleMouseMove with the button down on a 2D canvas, the mouse having moved
\* by (100, 0) to the canvas position (100, 100)
MouseMove ==
    /\ ~effectDue /\ isDragging2D /\ uiEvents.move > 0
    /\ renderParams.fractalType # "Mandelbulb"
    /\ IF renderParams.fractalType = "Julia"
       THEN \* handleJuliaConstantChange
            /\ isRendering' = TRUE
            /\ renderParams' =
                  [renderParams EXCEPT
                      !.cReal = XSub[WheelOffset(100, renderParams.width, renderParams.width,
                                                 renderParams.zoom), renderParams.panX],
                      !.cImag = XSub[WheelOffset(100, renderParams.height, renderParams.width,
                                                 renderParams.zoom), renderParams.panY]]
            /\ effectDue' = TRUE
            /\ UNCHANGED <<animationRef, elapsedTime, frames>>
       ELSE HandleViewChange([panX |-> XSub[renderParams.panX, DragOffset(100)],
                              panY |-> XSub[renderParams.panY, DragOffset(0)],
                              zoom |-> renderParams.zoom])
    /\ uiEvents' = Spend("move", "move")
    /\ UNCHANGED <<cameraRotation, contextMode, localStorage, isDragging2D, wheelEvent,
                   viewRequest, restVars>>

\* a frame callback of the view animation: animateView
AnimateFrame ==
    /\ ~effectDue
    /\ \E id \in frames, gap \in FrameGaps :
          LET elapsed  == IF animationRef.startTime = "null" THEN 0
                          ELSE IF elapsedTime + gap > ANIMATION_DURATION
                               THEN ANIMATION_DURATION ELSE elapsedTime + gap
              progress == Ratio[elapsed, ANIMATION_DURATION, 0]
              eased    == easeInOutQuad(progress)
              from     == animationRef.startView
              to       == animationRef.targetView
              rest     == frames \ {id}
              next     == NextFrameId
          IN  /\ elapsedTime' = IF elapsed < ANIMATION_DURATION THEN elapsed ELSE 0
              /\ renderParams' = [renderParams EXCEPT
                                     !.panX = Interpolate(from.panX, to.panX, eased),
                                     !.panY = Interpolate(from.panY, to.panY, eased),
                                     !.zoom = Interpolate(from.zoom, to.zoom, eased)]
              /\ effectDue' = TRUE
              /\ IF elapsed < ANIMATION_DURATION
                 THEN /\ frames' = rest \cup {next}
                      /\ animationRef' = [animationRef EXCEPT !.startTime = "set",
                                                              !.animationFrameId = next]
                      /\ UNCHANGED isRendering
                 ELSE /\ frames' = rest
                      /\ animationRef' = [animationRef EXCEPT !.startTime = "null",
                                                              !.animationFrameId = 0]
                      /\ isRendering' = FALSE
    /\ UNCHANGED <<cameraRotation, contextMode, localStorage, isDragging2D, wheelEvent,
                   viewRequest, uiEvents, restVars>>

\* the canvas gives a context of the kind it is bound to, or of any kind
\* while it is bound to none; a host without WebGL gives none
GetContext(kind, hostGives) == hostGives /\ contextMode \in {"none", kind}

\* the effect of FractalCanvas after a commit that changed params or
\* cameraRotation; onRenderComplete is handleRenderComplete of App
RunEffect ==
    /\ effectDue
    /\ effectDue' = FALSE
    /\ \E hostGives \in BOOLEAN :
          LET kind == IF renderParams.fractalType = "Mandelbulb" THEN "webgl" ELSE "2d"
              got  == GetContext(kind, hostGives \/ kind = "2d")
          IN  /\ contextMode' = IF got THEN kind ELSE contextMode
              /\ isRendering' = IF got /\ animationRef.animationFrameId = 0
                                THEN FALSE ELSE isRendering
    /\ UNCHANGED <<renderParams, cameraRotation, animationRef, elapsedTime, frames, localStorage,
                   isDragging2D, wheelEvent, viewRequest, uiEvents, restVars>>

NextApp ==
    \/ RenderClick
    \/ ResetClick
    \/ SaveClick
    \/ LoadClick
    \/ Wheel
    \/ MouseDown
    \/ MouseUp
    \/ MouseMove
    \/ AnimateFrame
    \/ RunEffect

SpecApp == InitApp /\ [][NextApp]_vars

\* the frame clock keeps running and React runs the effects that are due
FairSpecApp == SpecApp /\ WF_vars(AnimateFrame) /\ WF_vars(RunEffect)

(***************************************************************************)
(* SpecZoom: the App after Render with the zoom slider near its greatest   *)
(* value, followed by wheel events, animation frames, Save and Load.       *)
(***************************************************************************)

\* the state SpecApp is in after that Render and its effect
ZoomStart ==
    /\ renderParams = [InitialParams EXCEPT !.zoom = XDiv[Num(49920), Num(100)],
                                            !.iterations = 2000,
                                            !.mandelbulbIterations = 1000]
    /\ isRendering = FALSE
    /\ cameraRotation = [x |-> Num(0), y |-> Num(0)]
    /\ animationRef = [ startTime |-> "null",
                        startView  |-> [panX |-> Num(0), panY |-> Num(0), zoom |-> Num(1)],
                        targetView |-> [panX |-> Num(0), panY |-> Num(0), zoom |-> Num(1)],
                        animationFrameId |-> 0 ]
    /\ elapsedTime = 0
    /\ frames = {}
    /\ effectDue = FALSE
    /\ contextMode = "2d"
    /\ localStorage = NoSettings
    /\ isDragging2D = FALSE
    /\ wheelEvent = NoWheel
    /\ viewRequest = NoView

InitZoom ==
    /\ ZoomStart
    /\ uiEvents = [click |-> MaxClick, wheel |-> MaxZoomWheel, move |-> 0, last |-> "Render"]
    /\ HslIdle /\ MarchIdle /\ SierpIdle
    /\ CoreIdle("app")

\* a wheel-in event at the centre of the canvas after the view animation of
\* the one before has finished
WheelIn ==
    /\ ~isRendering
    /\ WheelWith([mouseX |-> CANVAS_WIDTH \div 2, mouseY |-> CANVAS_HEIGHT \div 2,
                  deltaY |-> -100])

NextZoom ==
    \/ WheelIn
    \/ AnimateFrame
    \/ RunEffect
    \/ SaveClick
    \/ LoadClick

SpecZoom == InitZoom /\ [][NextZoom]_vars

IsPositive(a) == ~a.nan /\ a.m > 0

\* C15: the parameters handed to the renderer always have zoom > 0, width
\* 800, height 600 and positive integer iteration and step budgets
C15_RenderParametersValid ==
    renderParams # <<>> =>
        /\ IsPositive(renderParams.zoom)
        /\ renderParams.width = CANVAS_WIDTH
        /\ renderParams.height = CANVAS_HEIGHT
        /\ renderParams.iterations \in Nat \ {0}
        /\ renderParams.mandelbulbIterations \in Nat \ {0}

\* settings saved while zoom * 100 was beyond the number range were loaded:
\* the zoom handed to the renderer is 0
C15_Witness ==
    /\ uiEvents.last = "Load"
    /\ localStorage.saved /\ localStorage.zoom.null
    /\ renderParams.zoom = Num(0)

\* C18: isRendering, once true, eventually becomes false again, and it is
\* true while a view-animation frame is pending
C18_RenderingEnds ==
    /\ (isRendering ~> ~isRendering)
    /\ [](frames # {} => isRendering)

\* the Mandelbulb was selected on the canvas that drew the Mandelbrot set:
\* nothing is pending and isRendering is still true
C18_Witness ==
    /\ renderParams.fractalType = "Mandelbulb"
    /\ contextMode = "2d"
    /\ isRendering /\ ~effectDue /\ frames = {}

PendingFrameKeepsRendering == frames # {} => isRendering

\* C20: after Reset View the render parameters are the initial view
C20_ResetRestoresInitialView ==
    uiEvents.last = "Reset" =>
        /\ renderParams.fractalType = "Mandelbrot"
        /\ renderParams.zoom = Num(1)
        /\ renderParams.iterations = 200
        /\ renderParams.cReal = InitialJulia[1]
        /\ renderParams.cImag = InitialJulia[2]
        /\ renderParams.colorPalette = "Viridis"
        /\ renderParams.mandelbulbIterations = 500
        /\ renderParams.panX = getInitialPan("Mandelbrot")[1]
        /\ renderParams.panY = getInitialPan("Mandelbrot")[2]

\* Reset View was pressed on the Mandelbrot set after a drag: everything but
\* the pan is initial
C20_Witness ==
    /\ uiEvents.last = "Reset"
    /\ uiEvents.move < MaxMove
    /\ renderParams.fractalType = "Mandelbrot"
    /\ renderParams.zoom = Num(1)
    /\ renderParams.panX # getInitialPan("Mandelbrot")[1]

SizesAndBudgetsValid ==
    renderParams # <<>> =>
        /\ renderParams.width = CANVAS_WIDTH
        /\ renderParams.height = CANVAS_HEIGHT
        /\ renderParams.iterations \in Nat \ {0}
        /\ renderParams.mandelbulbIterations \in Nat \ {0}

=============================================================================
